---- MODULE Spec2Model ----
(***************************************************************************)
(* Model of vmware-dora-evidence.  The DORA metrics analyzer                *)
(* (src/src/analyzers/metrics_analyzer.py): a call of                       *)
(* calculate_dora_metrics on bounded deployment and incident lists (Spec),  *)
(* get_performance_classification on mappings around its thresholds        *)
(* (SpecClassifier), and two callers of one analyzer (SpecConcurrent).      *)
(* The collection of deployments through VMwareClient.get_events            *)
(* (SpecCollect), get_deployment_statistics (SpecStatistics), the daemon    *)
(* command (SpecDaemon, SpecDaemonFair), cli._safe_path (SpecPath),         *)
(* ConfigManager.update_config (SpecConfig) and collect_all_metrics from    *)
(* the client's events to the metrics (SpecPipeline).  Python values are    *)
(* modelled by their type and content, exceptions by their class name,      *)
(* instants in whole hours, and the numbers returned as exact rationals     *)
(* (the rounding of the float arithmetic is not modelled).                  *)
(***************************************************************************)
EXTENDS Integers, Sequences, FiniteSets, TLC

VARIABLES deployments, incidents, pc, metrics, classifications,
          cpc, gpc, events, pending, failure, created, destroyed, records, collected,
          answers, analyzer, args, frames,
          running, tpc, mpc, now, deadline, join_deadline, started, finished, outcome, cleared,
          listed, statistics,
          config, update_exc, kept,
          user_path, cwd, resolved_path

\* the variables of the analyzer and those of the collection
analyzerVars == <<deployments, incidents, pc, metrics, classifications>>

collectVars == <<cpc, gpc, events, pending, failure, created, destroyed, records, collected,
                 answers>>

\* the analyzer instance, and the arguments and locals of the calls in flight
callVars == <<analyzer, args, frames>>

\* the daemon command: the running flag, the positions of the collection
\* thread and of the main thread, the clock and what the waits wait for
daemonVars == <<running, tpc, mpc, now, deadline, join_deadline, started, finished, outcome, cleared>>

\* get_deployment_statistics: the list handed in and the dict returned
statisticsVars == <<listed, statistics>>

\* ConfigManager: the configuration held, what the last update_config call
\* raised and whether that call left the configuration as it was
configVars == <<config, update_exc, kept>>

\* _safe_path: the path string given, the current working directory and the path returned
pathVars == <<user_path, cwd, resolved_path>>

\* the variables of the components beside the analyzer and the collection
otherVars == <<daemonVars, statisticsVars, configVars, pathVars>>

\* what an action of the daemon leaves alone
beyondDaemon == <<analyzerVars, collectVars, callVars, statisticsVars, configVars, pathVars>>

vars == <<deployments, incidents, pc, metrics, classifications,
          cpc, gpc, events, pending, failure, created, destroyed, records, collected,
          answers, analyzer, args, frames,
          running, tpc, mpc, now, deadline, join_deadline, started, finished, outcome, cleared,
          listed, statistics,
          config, update_exc, kept,
          user_path, cwd, resolved_path>>

\* what an action of get_deployment_statistics leaves alone
beyondStatistics == <<analyzerVars, collectVars, callVars, daemonVars, configVars, pathVars>>

\* what an action of ConfigManager leaves alone
beyondConfig == <<analyzerVars, collectVars, callVars, daemonVars, statisticsVars, pathVars>>

\* what an action of _safe_path leaves alone
beyondPath == <<analyzerVars, collectVars, callVars, daemonVars, statisticsVars, configVars>>

(***************************************************************************)
(* Bounds of the model.                                                     *)
(***************************************************************************)
\* longest deployment list drawn
MaxDeployments == 2
\* longest incident list drawn
MaxIncidents == 2
\* instants are the multiples 0..MaxTick of TickHours hours
MaxTick == 3
TickHours == 12
\* get_events: max_events (1000 in the source) and the batch size asked of
\* ReadNextEvents (100 in the source), scaled down
MaxEvents == 3
BatchLimit == 2

Times == {k * TickHours : k \in 0..MaxTick}

(***************************************************************************)
(* Python values held by the fields of a record.  kind is the Python type  *)
(* ("absent": the key is not in the dict).  A str carries its text; the     *)
(* text "iso" stands for an ISO 8601 date-time of instant t (hours) whose   *)
(* zone suffix is tz ("" none, "Z", or "+00:00").  A datetime carries its   *)
(* instant t and tz ("" offset-naive, "+00:00" offset-aware).               *)
(***************************************************************************)
Absent == [kind |-> "absent", text |-> "", tz |-> "", t |-> 0]
None == [kind |-> "none", text |-> "", tz |-> "", t |-> 0]
IntVal == [kind |-> "int", text |-> "", tz |-> "", t |-> 0]
Str(s) == [kind |-> "str", text |-> s, tz |-> "", t |-> 0]
IsoStr(zone, h) == [kind |-> "str", text |-> "iso", tz |-> zone, t |-> h]
DateTime(zone, h) == [kind |-> "datetime", text |-> "", tz |-> zone, t |-> h]

\* dict.get(key): the value, or None when the key is absent
Get(rec, key) == IF rec[key].kind = "absent" THEN None ELSE rec[key]

\* dict.get(key, default)
GetDefault(rec, key, default) == IF rec[key].kind = "absent" THEN default ELSE rec[key]

\* Python truth value of a field value (the int drawn is non-zero)
Truthy(v) ==
  CASE v.kind = "absent" -> FALSE
    [] v.kind = "none" -> FALSE
    [] v.kind = "str" -> v.text # ""
    [] OTHER -> TRUE

IsStr(v) == v.kind = "str"

IsDateTime(v) == v.kind = "datetime"

\* str.replace('Z', '+00:00') on a timestamp string
ReplaceZ(v) == IF v.text = "iso" /\ v.tz = "Z" THEN [v EXCEPT !.tz = "+00:00"] ELSE v

\* datetime.fromisoformat raises ValueError on a text it cannot parse
FromIsoFormatOk(v) == v.text = "iso" /\ v.tz \in {"", "+00:00"}

\* datetime.fromisoformat(s): offset-aware exactly when s carries an offset
FromIsoFormat(v) == DateTime(v.tz, v.t)

\* mutant of Caught: the except clause is missing, the ValueError propagates
CaughtNothing(exc) == FALSE

\* the exception classes an `except ValueError:` clause catches
Caught(exc) == exc = "ValueError"

(***************************************************************************)
(* Results.  A function returns a number (exc = "none", the exact rational  *)
(* num/den in lowest terms) or raises (exc names the exception class).      *)
(***************************************************************************)
RECURSIVE Gcd(_, _)
Gcd(a, b) == IF b = 0 THEN a ELSE Gcd(b, a % b)

Rat(n, d) == LET g == Gcd(n, d) IN [exc |-> "none", num |-> n \div g, den |-> d \div g]

Raise(e) == [exc |-> e, num |-> 0, den |-> 1]

RECURSIVE SumSeq(_)
SumSeq(s) == IF s = <<>> THEN 0 ELSE Head(s) + SumSeq(Tail(s))

\* statistics.mean of a non-empty list of hours
Mean(s) == Rat(SumSeq(s), Len(s))

\* a datetime comparison or subtraction raises TypeError when exactly one
\* operand is offset-aware
Comparable(a, b) == a.tz = b.tz

\* the try/except around datetime.fromisoformat(x.replace('Z', '+00:00')):
\* "ok" with the datetime, "skip" when the ValueError is caught (continue),
\* or the exception that propagates
ParseTimestamp(v) ==
  LET r == ReplaceZ(v)
  IN IF FromIsoFormatOk(r) THEN [res |-> "ok", value |-> FromIsoFormat(r)]
     ELSE IF Caught("ValueError") THEN [res |-> "skip", value |-> v]
     ELSE [res |-> "ValueError", value |-> v]

(***************************************************************************)
(* _calculate_deployment_frequency                                          *)
(***************************************************************************)
\* dates = [d.get('timestamp') for d in deployments if d.get('timestamp')]
RECURSIVE Dates(_)
Dates(deps) ==
  IF deps = <<>> THEN <<>>
  ELSE LET v == Get(Head(deps), "timestamp")
       IN IF Truthy(v) THEN <<v>> \o Dates(Tail(deps)) ELSE Dates(Tail(deps))

\* the loop building datetime_objects
RECURSIVE DatetimeObjects(_)
DatetimeObjects(dates) ==
  IF dates = <<>> THEN [exc |-> "none", objs |-> <<>>]
  ELSE LET date == Head(dates)
           rest == DatetimeObjects(Tail(dates))
       IN IF IsStr(date)
          THEN LET p == ParseTimestamp(date)
               IN CASE p.res = "ok" ->
                         [exc |-> rest.exc, objs |-> <<p.value>> \o rest.objs]
                    [] p.res = "skip" -> rest
                    [] OTHER -> [exc |-> p.res, objs |-> <<>>]
          ELSE IF IsDateTime(date)
          THEN [exc |-> rest.exc, objs |-> <<date>> \o rest.objs]
          ELSE rest

\* min(datetime_objects): each item is compared with the best so far
RECURSIVE MinFrom(_, _)
MinFrom(best, s) ==
  IF s = <<>> THEN [exc |-> "none", value |-> best]
  ELSE IF ~Comparable(Head(s), best) THEN [exc |-> "TypeError", value |-> best]
  ELSE MinFrom(IF Head(s).t < best.t THEN Head(s) ELSE best, Tail(s))

\* max(datetime_objects)
RECURSIVE MaxFrom(_, _)
MaxFrom(best, s) ==
  IF s = <<>> THEN [exc |-> "none", value |-> best]
  ELSE IF ~Comparable(Head(s), best) THEN [exc |-> "TypeError", value |-> best]
  ELSE MaxFrom(IF Head(s).t > best.t THEN Head(s) ELSE best, Tail(s))

\* timedelta.days of a non-negative difference of instants in hours
HoursPerDay == 24
Days(hours) == hours \div HoursPerDay

\* mutant of NoDatesFrequency: the record count is returned
NoDatesFrequencyCount(deps) == Rat(Len(deps), 1)

\* mutant of FewDatesFrequency: the number of valid timestamps is returned
FewDatesFrequencyValid(deps) == Rat(Len(DatetimeObjects(Dates(deps)).objs), 1)

\* the value returned when no deployment has a truthy timestamp
NoDatesFrequency(deps) == Rat(0, 1)

\* the value returned when fewer than 2 datetimes were extracted
FewDatesFrequency(deps) == Rat(Len(deps), 1)

\* mutant of TimeSpan: a span of 0 days is not raised to 1
TimeSpanUnclamped(min_date, max_date) == Days(max_date.t - min_date.t)

\* time_span, at least one day
TimeSpan(min_date, max_date) ==
  LET time_span == Days(max_date.t - min_date.t)
  IN IF time_span = 0 THEN 1 ELSE time_span

\* mutant of Frequency: days per deployment
FrequencyInverted(count, time_span) == Rat(time_span, count)

\* frequency = len(deployments) / time_span
Frequency(count, time_span) == Rat(count, time_span)

CalculateDeploymentFrequency(deps) ==
  IF deps = <<>> THEN Rat(0, 1)
  ELSE LET dates == Dates(deps)
       IN IF dates = <<>> THEN NoDatesFrequency(deps)
          ELSE LET dos == DatetimeObjects(dates)
               IN IF dos.exc # "none" THEN Raise(dos.exc)
                  ELSE IF Len(dos.objs) < 2 THEN FewDatesFrequency(deps)
                  ELSE LET mn == MinFrom(Head(dos.objs), Tail(dos.objs))
                           mx == MaxFrom(Head(dos.objs), Tail(dos.objs))
                       IN IF mn.exc # "none" THEN Raise(mn.exc)
                          ELSE IF mx.exc # "none" THEN Raise(mx.exc)
                          ELSE Frequency(Len(deps), TimeSpan(mn.value, mx.value))

\* mutant of Duration: the test `lead_time_hours >= 0` is missing
DurationSigned(start_time, end_time) ==
  IF ~(Truthy(start_time) /\ Truthy(end_time)) THEN [res |-> "skip", hours |-> 0]
  ELSE LET ps == IF IsStr(start_time) THEN ParseTimestamp(start_time)
                 ELSE [res |-> "ok", value |-> start_time]
           pe == IF IsStr(end_time) THEN ParseTimestamp(end_time)
                 ELSE [res |-> "ok", value |-> end_time]
       IN IF ps.res # "ok" THEN [res |-> ps.res, hours |-> 0]
          ELSE IF pe.res # "ok" THEN [res |-> pe.res, hours |-> 0]
          ELSE IF ~(IsDateTime(ps.value) /\ IsDateTime(pe.value))
          THEN [res |-> "skip", hours |-> 0]
          ELSE IF ~Comparable(pe.value, ps.value)
          THEN [res |-> "TypeError", hours |-> 0]
          ELSE [res |-> "append", hours |-> pe.value.t - ps.value.t]

(***************************************************************************)
(* _calculate_lead_time and _calculate_recovery_time share the body of      *)
(* their loop: from a start and an end value to the hours appended.         *)
(***************************************************************************)
\* one pass of the loop body on (start_time, end_time):
\* "append" hours, "skip" (nothing appended), or the exception raised
Duration(start_time, end_time) ==
  IF ~(Truthy(start_time) /\ Truthy(end_time)) THEN [res |-> "skip", hours |-> 0]
  ELSE LET ps == IF IsStr(start_time) THEN ParseTimestamp(start_time)
                 ELSE [res |-> "ok", value |-> start_time]
       IN IF ps.res # "ok" THEN [res |-> ps.res, hours |-> 0]
          ELSE LET pe == IF IsStr(end_time) THEN ParseTimestamp(end_time)
                         ELSE [res |-> "ok", value |-> end_time]
               IN IF pe.res # "ok" THEN [res |-> pe.res, hours |-> 0]
                  ELSE IF ~(IsDateTime(ps.value) /\ IsDateTime(pe.value))
                  THEN [res |-> "skip", hours |-> 0]
                  ELSE IF ~Comparable(pe.value, ps.value)
                  THEN [res |-> "TypeError", hours |-> 0]
                  ELSE IF pe.value.t - ps.value.t >= 0
                  THEN [res |-> "append", hours |-> pe.value.t - ps.value.t]
                  ELSE [res |-> "skip", hours |-> 0]

\* the loop building lead_times
RECURSIVE LeadTimes(_)
LeadTimes(deps) ==
  IF deps = <<>> THEN [exc |-> "none", times |-> <<>>]
  ELSE LET d == Duration(Get(Head(deps), "start_time"), Get(Head(deps), "end_time"))
       IN CASE d.res = "skip" -> LeadTimes(Tail(deps))
            [] d.res = "append" ->
                 LET rest == LeadTimes(Tail(deps))
                 IN [exc |-> rest.exc, times |-> <<d.hours>> \o rest.times]
            [] OTHER -> [exc |-> d.res, times |-> <<>>]

DefaultLeadTime == 24

\* mutant of CalculateLeadTime: the recovery-time default is returned
CalculateLeadTimeRecoveryDefault(deps) ==
  LET lt == LeadTimes(deps)
  IN IF lt.exc # "none" THEN Raise(lt.exc)
     ELSE IF lt.times = <<>> THEN Rat(4, 1)
     ELSE Mean(lt.times)

CalculateLeadTime(deps) ==
  LET lt == LeadTimes(deps)
  IN IF lt.exc # "none" THEN Raise(lt.exc)
     ELSE IF lt.times = <<>> THEN Rat(DefaultLeadTime, 1)
     ELSE Mean(lt.times)

\* mutant of Or: the second operand is preferred
OrSecond(a, b) == IF Truthy(b) THEN b ELSE a

\* a or b
Or(a, b) == IF Truthy(a) THEN a ELSE b

\* the loop building recovery_times
RECURSIVE RecoveryTimes(_)
RecoveryTimes(incs) ==
  IF incs = <<>> THEN [exc |-> "none", times |-> <<>>]
  ELSE LET start_time == Or(Get(Head(incs), "start_time"), Get(Head(incs), "timestamp"))
           end_time == Or(Get(Head(incs), "end_time"), Get(Head(incs), "resolved_time"))
           d == Duration(start_time, end_time)
       IN CASE d.res = "skip" -> RecoveryTimes(Tail(incs))
            [] d.res = "append" ->
                 LET rest == RecoveryTimes(Tail(incs))
                 IN [exc |-> rest.exc, times |-> <<d.hours>> \o rest.times]
            [] OTHER -> [exc |-> d.res, times |-> <<>>]

\* mutant of CalculateRecoveryTime: the lead-time default is returned
CalculateRecoveryTimeLeadDefault(incs) ==
  LET rt == RecoveryTimes(incs)
  IN IF rt.exc # "none" THEN Raise(rt.exc)
     ELSE IF rt.times = <<>> THEN Rat(DefaultLeadTime, 1)
     ELSE Mean(rt.times)

DefaultRecoveryTime == 4

CalculateRecoveryTime(incs) ==
  LET rt == RecoveryTimes(incs)
  IN IF rt.exc # "none" THEN Raise(rt.exc)
     ELSE IF rt.times = <<>> THEN Rat(DefaultRecoveryTime, 1)
     ELSE Mean(rt.times)

(***************************************************************************)
(* _calculate_change_failure_rate                                           *)
(***************************************************************************)
\* str.lower() on the status texts drawn
Lower(s) ==
  CASE s = "FAILED" -> "failed"
    [] s = "Error" -> "error"
    [] s = "Failure" -> "failure"
    [] OTHER -> s

FailedStatuses == {"failed", "error", "failure"}

\* the loop counting failed_deployments; .lower() exists on a str only
RECURSIVE FailedDeployments(_)
FailedDeployments(deps) ==
  IF deps = <<>> THEN [exc |-> "none", n |-> 0]
  ELSE LET status == GetDefault(Head(deps), "status", Str(""))
       IN IF ~IsStr(status) THEN [exc |-> "AttributeError", n |-> 0]
          ELSE LET rest == FailedDeployments(Tail(deps))
               IN [exc |-> rest.exc,
                   n |-> rest.n + (IF Lower(status.text) \in FailedStatuses THEN 1 ELSE 0)]

WindowHours == 24

\* mutant of InWindow: the upper end of the window is open
InWindowOpen(time_diff) == 0 <= time_diff /\ time_diff < WindowHours

\* timedelta(0) <= time_diff <= timedelta(hours=24)
InWindow(time_diff) == 0 <= time_diff /\ time_diff <= WindowHours

\* the inner loop over deployments for one incident_time: "match" (credited,
\* break), "nomatch", or the exception raised
RECURSIVE ScanDeployments(_, _)
ScanDeployments(incident_time, deps) ==
  IF deps = <<>> THEN "nomatch"
  ELSE LET deploy_time == Get(Head(deps), "timestamp")
       IN IF ~Truthy(deploy_time) THEN ScanDeployments(incident_time, Tail(deps))
          ELSE LET p == IF IsStr(deploy_time) THEN ParseTimestamp(deploy_time)
                        ELSE [res |-> "ok", value |-> deploy_time]
               IN CASE p.res = "skip" -> ScanDeployments(incident_time, Tail(deps))
                    [] p.res = "ok" ->
                         IF IsDateTime(p.value) /\ IsDateTime(incident_time)
                         THEN IF ~Comparable(incident_time, p.value) THEN "TypeError"
                              ELSE IF InWindow(incident_time.t - p.value.t) THEN "match"
                              ELSE ScanDeployments(incident_time, Tail(deps))
                         ELSE ScanDeployments(incident_time, Tail(deps))
                    [] OTHER -> p.res

\* mutant of Credit: the break is missing, every matching deployment is credited
CreditPerMatch(incident_time, deps) ==
  Cardinality({i \in DOMAIN deps :
     LET v == Get(deps[i], "timestamp")
         p == IF IsStr(v) THEN ParseTimestamp(v) ELSE [res |-> "ok", value |-> v]
     IN Truthy(v) /\ p.res = "ok" /\ IsDateTime(p.value)
        /\ InWindow(incident_time.t - p.value.t)})

\* the credit one matching incident adds to deployment_related_incidents
Credit(incident_time, deps) == 1

\* the outer loop over incidents counting deployment_related_incidents
RECURSIVE DeploymentRelatedIncidents(_, _)
DeploymentRelatedIncidents(deps, incs) ==
  IF incs = <<>> THEN [exc |-> "none", n |-> 0]
  ELSE LET incident_time == Get(Head(incs), "timestamp")
       IN IF ~Truthy(incident_time) THEN DeploymentRelatedIncidents(deps, Tail(incs))
          ELSE LET p == IF IsStr(incident_time) THEN ParseTimestamp(incident_time)
                        ELSE [res |-> "ok", value |-> incident_time]
               IN CASE p.res = "skip" -> DeploymentRelatedIncidents(deps, Tail(incs))
                    [] p.res = "ok" ->
                         LET scan == ScanDeployments(p.value, deps)
                             rest == DeploymentRelatedIncidents(deps, Tail(incs))
                         IN CASE scan = "match" ->
                                   [exc |-> rest.exc, n |-> Credit(p.value, deps) + rest.n]
                              [] scan = "nomatch" -> rest
                              [] OTHER -> [exc |-> scan, n |-> 0]
                    [] OTHER -> [exc |-> p.res, n |-> 0]

\* mutant of FailureRate: the rate is capped at 100
FailureRateCapped(total_failures, total) ==
  IF total_failures > total THEN Rat(100, 1) ELSE Rat(total_failures * 100, total)

\* (total_failures / len(deployments)) * 100
FailureRate(total_failures, total) == Rat(total_failures * 100, total)

CalculateChangeFailureRate(deps, incs) ==
  IF deps = <<>> THEN Rat(0, 1)
  ELSE LET failed == FailedDeployments(deps)
       IN IF failed.exc # "none" THEN Raise(failed.exc)
          ELSE LET related == DeploymentRelatedIncidents(deps, incs)
               IN IF related.exc # "none" THEN Raise(related.exc)
                  ELSE FailureRate(failed.n + related.n, Len(deps))

(***************************************************************************)
(* calculate_dora_metrics: the four metrics in the order of the dict        *)
(* literal; the first exception raised propagates to the caller.            *)
(***************************************************************************)
\* what a call that raised exc leaves its caller with: no metrics
Raised(e) == [exc |-> e,
              deployment_frequency |-> Raise(e), lead_time_for_changes |-> Raise(e),
              change_failure_rate |-> Raise(e), time_to_restore_service |-> Raise(e)]

CalculateDoraMetrics(deps, incs) ==
  LET f == CalculateDeploymentFrequency(deps)
      l == CalculateLeadTime(deps)
      c == CalculateChangeFailureRate(deps, incs)
      r == CalculateRecoveryTime(incs)
  IN CASE f.exc # "none" -> Raised(f.exc)
       [] l.exc # "none" -> Raised(l.exc)
       [] c.exc # "none" -> Raised(c.exc)
       [] r.exc # "none" -> Raised(r.exc)
       [] OTHER -> [exc |-> "none",
                    deployment_frequency |-> f, lead_time_for_changes |-> l,
                    change_failure_rate |-> c, time_to_restore_service |-> r]

(***************************************************************************)
(* get_performance_classification.  The metrics mapping is a function from  *)
(* its keys to numbers; the result is the dict built key by key.            *)
(***************************************************************************)
MetricKeys == {"deployment_frequency", "lead_time_for_changes",
               "change_failure_rate", "time_to_restore_service"}

\* metrics.get(key, 0)
GetMetric(m, key) == IF key \in DOMAIN m THEN m[key] ELSE Rat(0, 1)

\* value >= n/d and value <= n/d on exact rationals (den > 0)
Geq(value, n, d) == value.num * d >= n * value.den

Leq(value, n, d) == value.num * d <= n * value.den

\* mutant of ClassifyFrequency: the Elite comparison is strict
ClassifyFrequencyStrict(freq) ==
  IF ~Leq(freq, 1, 1) THEN "Elite"
  ELSE IF Geq(freq, 14, 100) THEN "High"
  ELSE IF Geq(freq, 33, 1000) THEN "Medium"
  ELSE "Low"

\* mutant of ClassifyFrequency: the else branch assigns no tier
ClassifyFrequencyNoElse(freq) ==
  IF Geq(freq, 1, 1) THEN "Elite"
  ELSE IF Geq(freq, 14, 100) THEN "High"
  ELSE IF Geq(freq, 33, 1000) THEN "Medium"
  ELSE "None"

ClassifyFrequency(freq) ==
  IF Geq(freq, 1, 1) THEN "Elite"
  ELSE IF Geq(freq, 14, 100) THEN "High"
  ELSE IF Geq(freq, 33, 1000) THEN "Medium"
  ELSE "Low"

ClassifyLeadTime(lead_time) ==
  IF Leq(lead_time, 24, 1) THEN "Elite"
  ELSE IF Leq(lead_time, 168, 1) THEN "High"
  ELSE IF Leq(lead_time, 720, 1) THEN "Medium"
  ELSE "Low"

\* mutant of ClassifyFailureRate: every comparison is strict
ClassifyFailureRateStrict(failure_rate) ==
  IF ~Geq(failure_rate, 15, 1) THEN "Elite"
  ELSE IF ~Geq(failure_rate, 30, 1) THEN "High"
  ELSE IF ~Geq(failure_rate, 45, 1) THEN "Medium"
  ELSE "Low"

ClassifyFailureRate(failure_rate) ==
  IF Leq(failure_rate, 15, 1) THEN "Elite"
  ELSE IF Leq(failure_rate, 30, 1) THEN "High"
  ELSE IF Leq(failure_rate, 45, 1) THEN "Medium"
  ELSE "Low"

ClassifyRecoveryTime(recovery_time) ==
  IF Leq(recovery_time, 1, 1) THEN "Elite"
  ELSE IF Leq(recovery_time, 24, 1) THEN "High"
  ELSE IF Leq(recovery_time, 168, 1) THEN "Medium"
  ELSE "Low"

\* classifications[key] = tier
Put(dict, key, tier) == [k \in DOMAIN dict \cup {key} |-> IF k = key THEN tier ELSE dict[k]]

GetPerformanceClassification(m) ==
  LET c0 == <<>>
      c1 == Put(c0, "deployment_frequency",
                ClassifyFrequency(GetMetric(m, "deployment_frequency")))
      c2 == Put(c1, "lead_time_for_changes",
                ClassifyLeadTime(GetMetric(m, "lead_time_for_changes")))
      c3 == Put(c2, "change_failure_rate",
                ClassifyFailureRate(GetMetric(m, "change_failure_rate")))
      c4 == Put(c3, "time_to_restore_service",
                ClassifyRecoveryTime(GetMetric(m, "time_to_restore_service")))
  IN c4

(***************************************************************************)
(* The inputs drawn: deployment and incident records (dicts) with the       *)
(* fields the analyzer reads.                                               *)
(***************************************************************************)
Deployment(ts, st, en, status) ==
  [timestamp |-> ts, start_time |-> st, end_time |-> en, status |-> status]

Incident(ts, st, en, res) ==
  [timestamp |-> ts, start_time |-> st, end_time |-> en, resolved_time |-> res]

SeqsUpTo(S, n) == UNION {[1..k -> S] : k \in 0..n}

LastTime == MaxTick * TickHours

\* ISO 8601 strings with a 'Z' suffix at every instant
ZStrings == {IsoStr("Z", h) : h \in Times}

\* every representation: missing, null, empty, unparseable, of another type,
\* ISO strings with and without 'Z', offset-naive and offset-aware datetimes
Shapes == {Absent, None, Str(""), Str("garbage"), IntVal,
           IsoStr("Z", 0), IsoStr("Z", LastTime), IsoStr("", 0),
           DateTime("", 0), DateTime("+00:00", 0)}

\* deployments with every timestamp representation at every instant
FrequencyInputs ==
  LET ts == {Absent, None, Str("garbage"), IntVal} \cup ZStrings
              \cup {IsoStr("", h) : h \in Times}
              \cup {DateTime("", h) : h \in Times}
              \cup {DateTime("+00:00", h) : h \in Times}
      D == {Deployment(x, Absent, Absent, Str("success")) : x \in ts}
  IN SeqsUpTo(D, MaxDeployments) \X {<<>>}

\* well-formed deployments and incidents at every instant
CorrelationInputs ==
  LET D == {Deployment(x, Absent, Absent, st) :
              x \in ZStrings, st \in {Str("success"), Str("FAILED")}}
      I == {Incident(x, Absent, Absent, Absent) : x \in ZStrings}
  IN SeqsUpTo(D, MaxDeployments) \X SeqsUpTo(I, MaxIncidents)

\* every status representation
StatusInputs ==
  LET sts == {Absent, None, IntVal, Str(""), Str("success"), Str("failed"),
              Str("Error"), Str("Failure")}
      D == {Deployment(IsoStr("Z", 0), Absent, Absent, st) : st \in sts}
      I == {Incident(IsoStr("Z", LastTime), Absent, Absent, Absent)}
  IN SeqsUpTo(D, MaxDeployments) \X SeqsUpTo(I, MaxIncidents)

\* every timestamp representation in deployments, the main ones in incidents
ShapeInputs ==
  LET D == {Deployment(x, Absent, Absent, Str("success")) : x \in Shapes}
      I == {Incident(x, Absent, Absent, Absent) :
              x \in {None, Str("garbage"), IntVal, IsoStr("Z", 0), DateTime("", 0)}}
  IN SeqsUpTo(D, MaxDeployments) \X SeqsUpTo(I, MaxIncidents)

\* deployments up to two and a half days apart, some without a valid timestamp
SpanInputs ==
  LET ts == {None, Str("garbage"), IsoStr("Z", 0), IsoStr("Z", 2 * HoursPerDay),
             IsoStr("Z", 2 * HoursPerDay + TickHours)}
      D == {Deployment(x, Absent, Absent, st) :
              x \in ts, st \in {Str("success"), Str("failed")}}
  IN SeqsUpTo(D, MaxDeployments + 1) \X {<<>>}

\* start_time and end_time of deployments in every representation
LeadTimeInputs ==
  LET reps == {Absent, None, Str("garbage"), IsoStr("Z", 0), IsoStr("Z", LastTime),
               DateTime("", 0)}
      D == {Deployment(IsoStr("Z", 0), st, en, Str("success")) : st \in reps, en \in reps}
  IN SeqsUpTo(D, MaxDeployments) \X {<<>>}

\* the four time fields of incidents
RecoveryInputs ==
  LET I == {Incident(ts, st, en, res) :
              ts \in {Absent, Str("garbage"), IsoStr("Z", 0)},
              st \in {Absent, Str("garbage"), IsoStr("Z", TickHours)},
              en \in {Absent, Str("garbage"), IsoStr("Z", LastTime)},
              res \in {Absent, IsoStr("Z", 0), DateTime("", LastTime)}}
  IN {<<>>} \X SeqsUpTo(I, MaxIncidents)

\* start_time and end_time null or empty beside the fields they fall back to
FallbackInputs ==
  LET I == {Incident(IsoStr("Z", 0), st, en, res) :
              st \in {None, Str("")},
              en \in {None, Absent, IsoStr("Z", LastTime)},
              res \in {Absent, IsoStr("Z", TickHours)}}
  IN {<<>>} \X SeqsUpTo(I, MaxIncidents)

Inputs == FrequencyInputs \cup CorrelationInputs \cup StatusInputs \cup ShapeInputs
            \cup SpanInputs
            \cup LeadTimeInputs \cup RecoveryInputs
            \cup FallbackInputs

(***************************************************************************)
(* The state machine: a caller holds the two lists and calls                *)
(* calculate_dora_metrics once.                                             *)
(***************************************************************************)
\* what the caller of collect_deployments holds: nothing yet, the list
\* returned (its length), or the exception raised
NoOutcome == [exc |-> "pending", count |-> 0]

\* no collection in progress: the lists are handed over as they are
CollectionIdle ==
  /\ cpc = "idle" /\ gpc = "none"
  /\ events = 0 /\ pending = "none" /\ failure = "none"
  /\ created = 0 /\ destroyed = 0
  /\ records = 0 /\ collected = NoOutcome
  /\ answers = <<>>

\* MetricsAnalyzer.__init__: the attributes of the instance
NewAnalyzer == [logger |-> "logger"]

\* no second caller: one analyzer, no call in flight beside the one modelled
NoCalls == analyzer = NewAnalyzer /\ args = <<>> /\ frames = <<>>

NotCalled == Raised("not_called")

\* the daemon command is not running
DaemonIdle ==
  /\ running = FALSE /\ tpc = "idle" /\ mpc = "idle"
  /\ now = 0 /\ deadline = 0 /\ join_deadline = 0
  /\ started = 0 /\ finished = 0 /\ outcome = "none" /\ cleared = 0

\* get_deployment_statistics has not been called
NoStatistics ==
  [exc |-> "not_called", total_deployments |-> 0, successful_deployments |-> 0,
   failed_deployments |-> 0, success_rate |-> [num |-> 0, den |-> 1],
   average_duration_minutes |-> [num |-> 0, den |-> 1]]

StatisticsIdle == listed = <<>> /\ statistics = NoStatistics

\* the keys of the 'vmware' and 'collection' sections that are validated
VmwareFields == {"vcenter_host", "username", "password", "port"}
CollectionFields == {"interval_minutes", "retention_days"}

\* the value under a section key: a dict (fields gives the value of each key,
\* Absent where the dict has no such key), None, or no such key
Section(k, f) == [kind |-> k, fields |-> f]
NoSection(F) == Section("absent", [f \in F |-> Absent])

\* no ConfigManager has been constructed
NoConfig == [vmware |-> NoSection(VmwareFields), collection |-> NoSection(CollectionFields)]

ConfigIdle == config = NoConfig /\ update_exc = "not_called" /\ kept = TRUE

\* _safe_path has not been called
NotResolved == [exc |-> "not_called", parts |-> <<>>]

PathIdle ==
  /\ user_path = [absolute |-> FALSE, parts |-> <<>>]
  /\ cwd = <<>>
  /\ resolved_path = NotResolved

\* the components beside the analyzer and the collection are idle, but for
\* the one named
IdleBut(g) ==
  /\ IF g = "daemon" THEN TRUE ELSE DaemonIdle
  /\ IF g = "statistics" THEN TRUE ELSE StatisticsIdle
  /\ IF g = "config" THEN TRUE ELSE ConfigIdle
  /\ IF g = "path" THEN TRUE ELSE PathIdle

OthersIdle == IdleBut("none")

\* no classification asked for yet
NotClassified == <<>>

Init ==
  /\ \E in \in Inputs : deployments = in[1] /\ incidents = in[2]
  /\ pc = "start"
  /\ metrics = NotCalled
  /\ classifications = NotClassified
  /\ CollectionIdle
  /\ NoCalls
  /\ OthersIdle

\* metrics = analyzer.calculate_dora_metrics(deployments, incidents)
Calculate ==
  /\ pc = "start"
  /\ metrics' = CalculateDoraMetrics(deployments, incidents)
  /\ pc' = "done"
  /\ UNCHANGED <<deployments, incidents, classifications>>
  /\ UNCHANGED collectVars
  /\ UNCHANGED callVars
  /\ UNCHANGED otherVars

\* the mapping handed to the classifier: the metrics without the mark of
\* how the call ended
MetricsDict(m) == [k \in DOMAIN m \ {"exc"} |-> m[k]]

\* classifications = analyzer.get_performance_classification(metrics)
Classify ==
  /\ pc = "done" /\ metrics.exc = "none"
  /\ classifications' = GetPerformanceClassification(MetricsDict(metrics))
  /\ pc' = "classified"
  /\ UNCHANGED <<deployments, incidents, metrics>>
  /\ UNCHANGED collectVars
  /\ UNCHANGED callVars
  /\ UNCHANGED otherVars

Next == Calculate \/ Classify

Spec == Init /\ [][Next]_vars

(***************************************************************************)
(* The classifier on its own: any mapping of numbers around the thresholds, *)
(* with metric keys missing and a key the classifier does not read.         *)
(***************************************************************************)
Thousandths(ns) == {Rat(n, 1000) : n \in ns}

Whole(ns) == {Rat(n, 1) : n \in ns}

MissingKey == Raise("missing")

MetricChoices ==
  [deployment_frequency : Thousandths({0, 32, 33, 139, 140, 999, 1000, 2000}) \cup {MissingKey},
   lead_time_for_changes : Whole({0, 24, 25, 168, 169, 720, 721}) \cup {MissingKey},
   change_failure_rate : Whole({0, 15, 16, 30, 31, 45, 46, 200}) \cup {MissingKey},
   time_to_restore_service : Whole({0, 1, 2, 24, 25, 168, 169}) \cup {MissingKey},
   measurement_period : {Rat(30, 1), MissingKey}]

\* the dict holding the keys chosen
MetricsOf(choice) ==
  [k \in {"exc"} \cup {k \in DOMAIN choice : choice[k] # MissingKey} |->
     IF k = "exc" THEN "none" ELSE choice[k]]

ClassifierInputs == {MetricsOf(choice) : choice \in MetricChoices}

InitClassifier ==
  /\ deployments = <<>> /\ incidents = <<>>
  /\ pc = "done"
  /\ metrics \in ClassifierInputs
  /\ classifications = NotClassified
  /\ CollectionIdle
  /\ NoCalls
  /\ OthersIdle

NextClassifier == Classify

SpecClassifier == InitClassifier /\ [][NextClassifier]_vars

(***************************************************************************)
(* Collection: DeploymentCollector.collect_deployments and the two          *)
(* VMwareClient.get_events calls it makes, step by step.  Every call to     *)
(* vCenter returns or raises; lists are modelled by their length.           *)
(***************************************************************************)
\* transport and authentication errors raised by a call to vCenter
UpstreamFailures == {"ConnectionError", "NotAuthenticated"}

\* what a call to vCenter can raise: an upstream failure, or the interrupt
\* delivered while the call blocks
Raisable == UpstreamFailures \cup {"KeyboardInterrupt"}

\* the classes an `except Exception` clause catches
IsException(exc) == exc \in UpstreamFailures

\* `except Exception as e:` of get_events
CaughtByClient(exc) == IsException(exc)

\* the first upstream failure of the collection
Note(f, exc) == IF f = "none" /\ exc \in UpstreamFailures THEN exc ELSE f

InitCollect ==
  /\ deployments = <<>> /\ incidents = <<>>
  /\ pc = "collecting"
  /\ metrics = NotCalled
  /\ classifications = NotClassified
  /\ cpc = "vm_query" /\ gpc = "none"
  /\ events = 0 /\ pending = "none" /\ failure = "none"
  /\ created = 0 /\ destroyed = 0
  /\ records = 0 /\ collected = NoOutcome
  /\ answers = <<>>
  /\ NoCalls
  /\ OthersIdle

\* self.vmware_client.get_events(...): entry, the filter spec is built
GetEvents ==
  /\ cpc \in {"vm_query", "infra_query"} /\ gpc = "none"
  /\ gpc' = "create"
  /\ events' = 0 /\ pending' = "none"
  /\ UNCHANGED <<cpc, failure, created, destroyed, records, collected, answers>>
  /\ UNCHANGED analyzerVars
  /\ UNCHANGED callVars
  /\ UNCHANGED otherVars

\* self.content.eventManager, event_manager.CreateCollectorForEvents(filter_spec)
CreateCollectorForEvents ==
  /\ gpc = "create"
  /\ \/ /\ created' = created + 1
        /\ gpc' = "read"
        /\ UNCHANGED <<pending, failure>>
     \/ \E exc \in Raisable :
          /\ pending' = exc /\ failure' = Note(failure, exc)
          /\ gpc' = "except"
          /\ UNCHANGED created
  /\ UNCHANGED <<cpc, events, destroyed, records, collected, answers>>
  /\ UNCHANGED analyzerVars
  /\ UNCHANGED callVars
  /\ UNCHANGED otherVars

\* mutant of ReadNextEvents: no finally clause, an exception while reading
\* goes to the except clause with the collector left alone
ReadNextEventsNoFinally ==
  /\ gpc = "read" /\ events < MaxEvents
  /\ \/ /\ UNCHANGED <<pending, failure>>
        /\ \E batch \in 0..BatchLimit :
             IF batch = 0
             THEN /\ gpc' = "finally" /\ UNCHANGED events
             ELSE /\ events' = IF events + batch >= MaxEvents THEN MaxEvents
                               ELSE events + batch
                  /\ gpc' = IF events' < MaxEvents THEN "read" ELSE "finally"
     \/ \E exc \in Raisable :
          /\ pending' = exc /\ failure' = Note(failure, exc)
          /\ gpc' = "except"
          /\ UNCHANGED events
  /\ UNCHANGED <<cpc, created, destroyed, records, collected, answers>>
  /\ UNCHANGED analyzerVars
  /\ UNCHANGED callVars
  /\ UNCHANGED otherVars

\* one round of the while loop: collector.ReadNextEvents(100), then the
\* for loop appending until max_events is reached
ReadNextEvents ==
  /\ gpc = "read" /\ events < MaxEvents
  /\ \/ /\ UNCHANGED <<pending, failure>>
        /\ \E batch \in 0..BatchLimit :
             IF batch = 0
             THEN /\ gpc' = "finally" /\ UNCHANGED events
             ELSE /\ events' = IF events + batch >= MaxEvents THEN MaxEvents
                               ELSE events + batch
                  /\ gpc' = IF events' < MaxEvents THEN "read" ELSE "finally"
     \/ \E exc \in Raisable :
          /\ pending' = exc /\ failure' = Note(failure, exc)
          /\ gpc' = "finally"
          /\ UNCHANGED events
  /\ UNCHANGED <<cpc, created, destroyed, records, collected, answers>>
  /\ UNCHANGED analyzerVars
  /\ UNCHANGED callVars
  /\ UNCHANGED otherVars

\* finally: collector.DestroyCollector(), which returns or raises; destroyed
\* counts the calls made
DestroyCollector ==
  /\ gpc = "finally"
  /\ destroyed' = destroyed + 1
  /\ \/ UNCHANGED <<pending, failure>>
     \/ \E exc \in Raisable :
          /\ pending' = exc /\ failure' = Note(failure, exc)
  /\ gpc' = IF pending' = "none" THEN "return" ELSE "except"
  /\ UNCHANGED <<cpc, events, created, records, collected, answers>>
  /\ UNCHANGED analyzerVars
  /\ UNCHANGED callVars
  /\ UNCHANGED otherVars

\* except Exception as e: log, return []; any other exception propagates
ExceptException ==
  /\ gpc = "except"
  /\ IF CaughtByClient(pending)
     THEN /\ events' = 0 /\ pending' = "none"
          /\ gpc' = "return"
     ELSE /\ gpc' = "raise"
          /\ UNCHANGED <<events, pending>>
  /\ UNCHANGED <<cpc, failure, created, destroyed, records, collected, answers>>
  /\ UNCHANGED analyzerVars
  /\ UNCHANGED callVars
  /\ UNCHANGED otherVars

\* get_events returned: one record per event is appended
ExtendWithEvents ==
  /\ gpc = "return"
  /\ records' = records + events
  /\ answers' = Append(answers, events)
  /\ cpc' = IF cpc = "vm_query" THEN "app" ELSE "return"
  /\ gpc' = "none"
  /\ UNCHANGED <<events, pending, failure, created, destroyed, collected>>
  /\ UNCHANGED analyzerVars
  /\ UNCHANGED callVars
  /\ UNCHANGED otherVars

\* _collect_application_deployments: the sample records
SampleDeployments == 5

CollectApplicationDeployments ==
  /\ cpc = "app"
  /\ records' = records + SampleDeployments
  /\ cpc' = "infra_query"
  /\ UNCHANGED <<gpc, events, pending, failure, created, destroyed, collected, answers>>
  /\ UNCHANGED analyzerVars
  /\ UNCHANGED callVars
  /\ UNCHANGED otherVars

\* mutant of ReRaise: the exception is swallowed and the records gathered so
\* far are returned
ReRaiseSwallowed ==
  /\ gpc = "raise"
  /\ collected' = [exc |-> "none", count |-> records]
  /\ cpc' = "returned" /\ gpc' = "none"
  /\ UNCHANGED <<events, pending, failure, created, destroyed, records, answers>>
  /\ UNCHANGED analyzerVars
  /\ UNCHANGED callVars
  /\ UNCHANGED otherVars

\* get_events raised: `except Exception: log; raise`, or no clause applies;
\* either way the exception reaches the caller and no list is returned
ReRaise ==
  /\ gpc = "raise"
  /\ collected' = [exc |-> pending, count |-> 0]
  /\ cpc' = "returned" /\ gpc' = "none"
  /\ UNCHANGED <<events, pending, failure, created, destroyed, records, answers>>
  /\ UNCHANGED analyzerVars
  /\ UNCHANGED callVars
  /\ UNCHANGED otherVars

\* return deployments
ReturnDeployments ==
  /\ cpc = "return"
  /\ collected' = [exc |-> "none", count |-> records]
  /\ cpc' = "returned"
  /\ UNCHANGED <<gpc, events, pending, failure, created, destroyed, records, answers>>
  /\ UNCHANGED analyzerVars
  /\ UNCHANGED callVars
  /\ UNCHANGED otherVars

NextCollect ==
  \/ GetEvents \/ CreateCollectorForEvents \/ ReadNextEvents \/ DestroyCollector
  \/ ExceptException \/ ExtendWithEvents \/ CollectApplicationDeployments
  \/ ReRaise \/ ReturnDeployments

SpecCollect == InitCollect /\ [][NextCollect]_vars

(***************************************************************************)
(* Two callers of one analyzer.  Each call of calculate_dora_metrics, and   *)
(* of get_performance_classification on its result, runs method by method   *)
(* on its own arguments and locals; the steps of the two calls interleave.  *)
(* What a method leaves in the instance and in the lists it was handed is   *)
(* part of its step.                                                        *)
(***************************************************************************)
Calls == {1, 2}

\* the locals of a call that has not computed anything yet
NewFrame == [pc |-> "frequency", values |-> NotCalled, result |-> NotCalled,
             classifications |-> NotClassified]

\* the argument lists drawn for a call
CallInputs ==
  {<<<<>>, <<>>>>,
   <<<<Deployment(IsoStr("Z", 0), IsoStr("Z", 0), IsoStr("Z", LastTime), Str("success"))>>,
     <<>>>>,
   <<<<Deployment(IsoStr("Z", 0), Absent, Absent, Str("failed")),
       Deployment(IsoStr("Z", 2 * TickHours), Absent, Absent, Str("success"))>>,
     <<Incident(IsoStr("Z", TickHours), Absent, Absent, IsoStr("Z", LastTime))>>>>,
   <<<<Deployment(Str("garbage"), DateTime("", 0), DateTime("", TickHours), None)>>,
     <<Incident(Str("garbage"), Absent, Absent, Absent)>>>>}

InitConcurrent ==
  /\ deployments = <<>> /\ incidents = <<>>
  /\ pc = "concurrent"
  /\ metrics = NotCalled
  /\ classifications = NotClassified
  /\ CollectionIdle
  /\ analyzer = NewAnalyzer
  /\ args \in [Calls -> CallInputs]
  /\ frames = [c \in Calls |-> NewFrame]
  /\ OthersIdle

\* mutant of RecordsAfterLeadTime: the parsed start_time is stored in the record
RecordsAfterLeadTimeStored(deps) ==
  [i \in DOMAIN deps |->
     IF Truthy(Get(deps[i], "start_time")) /\ Truthy(Get(deps[i], "end_time"))
        /\ IsStr(deps[i].start_time) /\ ParseTimestamp(deps[i].start_time).res = "ok"
     THEN [deps[i] EXCEPT !.start_time = ParseTimestamp(deps[i].start_time).value]
     ELSE deps[i]]

\* the deployment list as _calculate_lead_time leaves it: start_time and
\* end_time are rebound as locals, no record is assigned to
RecordsAfterLeadTime(deps) == deps

\* a sub-calculation returned value or raised: the next position, or the
\* exception ends the call
Advance(frame, key, value, next) ==
  IF value.exc # "none"
  THEN [frame EXCEPT !.pc = "done", !.result = Raised(value.exc)]
  ELSE [frame EXCEPT !.pc = next, !.values = [@ EXCEPT ![key] = value]]

\* 'deployment_frequency': self._calculate_deployment_frequency(deployments)
CallFrequency(c) ==
  /\ frames[c].pc = "frequency"
  /\ frames' = [frames EXCEPT ![c] =
                  Advance(@, "deployment_frequency",
                          CalculateDeploymentFrequency(args[c][1]), "lead_time")]
  /\ UNCHANGED <<analyzer, args>>
  /\ UNCHANGED analyzerVars
  /\ UNCHANGED collectVars
  /\ UNCHANGED otherVars

\* 'lead_time_for_changes': self._calculate_lead_time(deployments)
CallLeadTime(c) ==
  /\ frames[c].pc = "lead_time"
  /\ frames' = [frames EXCEPT ![c] =
                  Advance(@, "lead_time_for_changes",
                          CalculateLeadTime(args[c][1]), "failure_rate")]
  /\ args' = [args EXCEPT ![c] = <<RecordsAfterLeadTime(args[c][1]), args[c][2]>>]
  /\ UNCHANGED analyzer
  /\ UNCHANGED analyzerVars
  /\ UNCHANGED collectVars
  /\ UNCHANGED otherVars

\* 'change_failure_rate': self._calculate_change_failure_rate(deployments, incidents)
CallFailureRate(c) ==
  /\ frames[c].pc = "failure_rate"
  /\ frames' = [frames EXCEPT ![c] =
                  Advance(@, "change_failure_rate",
                          CalculateChangeFailureRate(args[c][1], args[c][2]), "recovery_time")]
  /\ UNCHANGED <<analyzer, args>>
  /\ UNCHANGED analyzerVars
  /\ UNCHANGED collectVars
  /\ UNCHANGED otherVars

\* 'time_to_restore_service': self._calculate_recovery_time(incidents);
\* return metrics
CallRecoveryTime(c) ==
  /\ frames[c].pc = "recovery_time"
  /\ LET f == Advance(frames[c], "time_to_restore_service",
                      CalculateRecoveryTime(args[c][2]), "classify")
     IN frames' = [frames EXCEPT ![c] =
                     IF f.pc = "classify"
                     THEN [f EXCEPT !.result = [f.values EXCEPT !.exc = "none"]]
                     ELSE f]
  /\ UNCHANGED <<analyzer, args>>
  /\ UNCHANGED analyzerVars
  /\ UNCHANGED collectVars
  /\ UNCHANGED otherVars

\* analyzer.get_performance_classification(metrics) on the metrics returned
CallClassify(c) ==
  /\ frames[c].pc = "classify"
  /\ frames' = [frames EXCEPT ![c].pc = "done",
                              ![c].classifications =
                                 GetPerformanceClassification(MetricsDict(frames[c].result))]
  /\ UNCHANGED <<analyzer, args>>
  /\ UNCHANGED analyzerVars
  /\ UNCHANGED collectVars
  /\ UNCHANGED otherVars

NextConcurrent ==
  \E c \in Calls :
    \/ CallFrequency(c) \/ CallLeadTime(c) \/ CallFailureRate(c)
    \/ CallRecoveryTime(c) \/ CallClassify(c)

SpecConcurrent == InitConcurrent /\ [][NextConcurrent]_vars



(***************************************************************************)
(* Vocabulary of the properties, stated on the input lists themselves.      *)
(***************************************************************************)
\* a value that resolves to a timestamp: a datetime or an ISO 8601 string
ValidTs(v) == v.kind = "datetime" \/ (v.kind = "str" /\ v.text = "iso")

\* a string that does not parse as ISO 8601
Unparseable(v) == v.kind = "str" /\ v.text # "iso"

\* a missing, null or empty value
Falsy(v) == v.kind \in {"absent", "none"} \/ (v.kind = "str" /\ v.text = "")

\* offset-aware: a datetime with tzinfo, a string with 'Z' or an offset
Aware(v) == v.tz # ""

Returned == pc = "done" /\ metrics.exc = "none"

\* the number a returned metric stands for is n/d
Equals(m, n, d) == m.exc = "none" /\ m.num * d = n * m.den

TimeFields == {"timestamp", "start_time", "end_time", "resolved_time"}

\* every value of a time field of either list
TimeValues ==
  {deployments[i][f] : i \in DOMAIN deployments, f \in {"timestamp", "start_time", "end_time"}}
    \cup {incidents[j][f] : j \in DOMAIN incidents, f \in TimeFields}

\* nothing but a timestamp can go wrong: every status is a string or missing,
\* and the valid timestamps are all offset-aware or all offset-naive
OtherwiseSound ==
  /\ \A i \in DOMAIN deployments : deployments[i].status.kind \in {"absent", "str"}
  /\ \A v, w \in TimeValues : ValidTs(v) /\ ValidTs(w) => (Aware(v) <=> Aware(w))

\* deployments whose status, lower-cased, is failed, error or failure
StatusFailed ==
  {i \in DOMAIN deployments :
     deployments[i].status.kind = "str"
     /\ deployments[i].status.text \in
          {"failed", "error", "failure", "FAILED", "Error", "Failure"}}

\* incident j occurred within 24 hours after deployment i
Within24h(i, j) ==
  /\ ValidTs(deployments[i].timestamp) /\ ValidTs(incidents[j].timestamp)
  /\ Aware(deployments[i].timestamp) <=> Aware(incidents[j].timestamp)
  /\ 0 <= incidents[j].timestamp.t - deployments[i].timestamp.t
  /\ incidents[j].timestamp.t - deployments[i].timestamp.t <= 24

\* incidents related to at least one deployment
Related == {j \in DOMAIN incidents : \E i \in DOMAIN deployments : Within24h(i, j)}

\* the deployment-related count the returned rate contains:
\* rate * len / 100 - status-failed count
CreditedCount ==
  (metrics.change_failure_rate.num * Len(deployments))
     \div (metrics.change_failure_rate.den * 100) - Cardinality(StatusFailed)

(***************************************************************************)
(* C1.  A timestamp string that does not parse never makes                  *)
(* calculate_dora_metrics raise: no ValueError leaves the call, an input    *)
(* with no other defect returns, and the lead time, recovery time and       *)
(* change failure rate returned equal those of the input with every record  *)
(* holding an unparseable value left out of the respective working set.     *)
(***************************************************************************)
LeadKept(d) == ~Unparseable(d.start_time) /\ ~Unparseable(d.end_time)

RecoveryKept(i) ==
  /\ ~Unparseable(IF Falsy(i.start_time) THEN i.timestamp ELSE i.start_time)
  /\ ~Unparseable(IF Falsy(i.end_time) THEN i.resolved_time ELSE i.end_time)

TimestampKept(r) == ~Unparseable(r.timestamp)

C1_ParseErrorsOmitted ==
  pc = "done" =>
    /\ metrics.exc # "ValueError"
    /\ OtherwiseSound => metrics.exc = "none"
    /\ metrics.exc = "none" =>
         /\ metrics.lead_time_for_changes
              = CalculateLeadTime(SelectSeq(deployments, LeadKept))
         /\ metrics.time_to_restore_service
              = CalculateRecoveryTime(SelectSeq(incidents, RecoveryKept))
         /\ deployments # <<>> =>
              Equals(metrics.change_failure_rate,
                     100 * (Cardinality(StatusFailed)
                            + DeploymentRelatedIncidents(
                                SelectSeq(deployments, TimestampKept),
                                SelectSeq(incidents, TimestampKept)).n),
                     Len(deployments))

\* unparseable timestamps in both lists beside a related pair: the call returns
C1_Witness ==
  /\ Returned
  /\ \E i \in DOMAIN deployments : deployments[i].timestamp = Str("garbage")
  /\ \E j \in DOMAIN incidents : incidents[j].timestamp = Str("garbage")
  /\ Related # {}
  /\ Equals(metrics.change_failure_rate, 50, 1)

(***************************************************************************)
(* C2.  A record whose expected field is absent, null or of an unexpected   *)
(* type never makes calculate_dora_metrics raise (stated on inputs whose    *)
(* timestamps are all offset-aware or all naive).                           *)
(***************************************************************************)
C2_ShapeErrorsNeverRaise ==
  (/\ pc = "done"
   /\ \A v, w \in TimeValues : ValidTs(v) /\ ValidTs(w) => (Aware(v) <=> Aware(w)))
    => metrics.exc = "none"

(***************************************************************************)
(* C3.  Mixing 'Z'-suffixed ISO strings with native datetimes never makes   *)
(* a comparison or a subtraction of timestamps raise.                       *)
(***************************************************************************)
C3_MixedRepresentationsComparable ==
  (/\ pc = "done"
   /\ \A v \in TimeValues :
        ValidTs(v) => v \in {IsoStr("Z", v.t), DateTime("", v.t), DateTime("+00:00", v.t)})
    => metrics.exc # "TypeError"

(***************************************************************************)
(* C4.  Empty deployments and empty incidents give 0.0, 24.0, 0.0, 4.0.     *)
(***************************************************************************)
C4_EmptyDefaults ==
  (pc = "done" /\ deployments = <<>> /\ incidents = <<>>) =>
    metrics = [exc |-> "none",
               deployment_frequency |-> [exc |-> "none", num |-> 0, den |-> 1],
               lead_time_for_changes |-> [exc |-> "none", num |-> 24, den |-> 1],
               change_failure_rate |-> [exc |-> "none", num |-> 0, den |-> 1],
               time_to_restore_service |-> [exc |-> "none", num |-> 4, den |-> 1]]

C4_Witness == pc = "done" /\ deployments = <<>> /\ incidents = <<>> /\ metrics.exc = "none"

C6_FailureRateWithin0To100 ==
  Returned =>
    /\ 0 <= metrics.change_failure_rate.num
    /\ metrics.change_failure_rate.num <= 100 * metrics.change_failure_rate.den

(***************************************************************************)
(* C7.  Each incident is credited at most once: the deployment-related      *)
(* count is the number of incidents with at least one deployment in the     *)
(* window, however many deployments match, and never exceeds the number of  *)
(* incidents.                                                               *)
(***************************************************************************)
C7_OneCreditPerIncident ==
  (Returned /\ deployments # <<>>) =>
    /\ CreditedCount <= Len(incidents)
    /\ CreditedCount = Cardinality(Related)

\* one incident in the window of two deployments is credited once
C7_Witness ==
  /\ Returned
  /\ Len(incidents) = 1 /\ Len(deployments) = 2 /\ StatusFailed = {}
  /\ Within24h(1, 1) /\ Within24h(2, 1)
  /\ Equals(metrics.change_failure_rate, 50, 1)

(***************************************************************************)
(* C8.  The correlation window is closed at both ends and one-sided: an     *)
(* incident more than 24 hours after, or strictly before, every deployment  *)
(* adds no credit; one exactly at deployment_time or at deployment_time +   *)
(* 24h adds credit.                                                         *)
(***************************************************************************)
Diff(i, j) == incidents[j].timestamp.t - deployments[i].timestamp.t

AllZ ==
  /\ \A i \in DOMAIN deployments : deployments[i].timestamp \in ZStrings
  /\ \A j \in DOMAIN incidents : incidents[j].timestamp \in ZStrings

C8_WindowClosedOneSided ==
  (Returned /\ deployments # <<>> /\ AllZ) =>
    /\ (\A j \in DOMAIN incidents : \A i \in DOMAIN deployments :
          Diff(i, j) > 24 \/ Diff(i, j) < 0) => CreditedCount = 0
    /\ (\A j \in DOMAIN incidents : \E i \in DOMAIN deployments :
          Diff(i, j) = 24 \/ Diff(i, j) = 0) => CreditedCount = Len(incidents)

\* an incident exactly 24 hours after the only deployment is credited
C8_Witness ==
  /\ Returned /\ AllZ
  /\ Len(deployments) = 1 /\ Len(incidents) = 1 /\ Diff(1, 1) = 24
  /\ StatusFailed = {}
  /\ Equals(metrics.change_failure_rate, 100, 1)

(***************************************************************************)
(* C9.  As claimed: a non-empty deployment list from which no valid         *)
(* timestamp can be extracted has deployment frequency 0.0.                 *)
(***************************************************************************)
NoValidTimestamp == \A i \in DOMAIN deployments : ~ValidTs(deployments[i].timestamp)

AllTimestampsFalsy == \A i \in DOMAIN deployments : Falsy(deployments[i].timestamp)

ValidTimestamps == {i \in DOMAIN deployments : ValidTs(deployments[i].timestamp)}

C10_FewTimestampsRecordCount ==
  (Returned /\ Cardinality(ValidTimestamps) < 2) =>
    Equals(metrics.deployment_frequency, Len(deployments), 1)

(***************************************************************************)
(* C10 amended.  With fewer than 2 valid timestamps and at least one record *)
(* whose timestamp is present and non-empty, deployment frequency is the    *)
(* total number of deployment records, not the number of valid timestamps;  *)
(* when every timestamp is absent, null or empty it is 0.0.                 *)
(***************************************************************************)
C10_FewTimestampsAmended ==
  (Returned /\ Cardinality(ValidTimestamps) < 2) =>
    /\ ~AllTimestampsFalsy => Equals(metrics.deployment_frequency, Len(deployments), 1)
    /\ AllTimestampsFalsy => Equals(metrics.deployment_frequency, 0, 1)

\* one valid timestamp among two records: frequency 2, not 1
C10_Witness ==
  /\ Returned /\ Len(deployments) = 2 /\ Cardinality(ValidTimestamps) = 1
  /\ \E i \in DOMAIN deployments : Falsy(deployments[i].timestamp)
  /\ Equals(metrics.deployment_frequency, 2, 1)

(***************************************************************************)
(* C11.  With at least 2 valid timestamps, deployment frequency is the      *)
(* number of records (those without a valid timestamp included) divided by  *)
(* the whole days between the earliest and the latest valid timestamp, 1    *)
(* when that is 0; the divisor is never 0.                                  *)
(***************************************************************************)
ValidInstants == {deployments[i].timestamp.t : i \in ValidTimestamps}

Earliest == CHOOSE h \in ValidInstants : \A g \in ValidInstants : h <= g

Latest == CHOOSE h \in ValidInstants : \A g \in ValidInstants : h >= g

\* floor of the span in days, 1 when the floor is 0
SpanDays ==
  LET whole == CHOOSE n \in 0..(Latest - Earliest) :
                 n * 24 <= Latest - Earliest /\ Latest - Earliest < (n + 1) * 24
  IN IF whole = 0 THEN 1 ELSE whole

C11_FrequencyOverSpan ==
  (Returned /\ Cardinality(ValidTimestamps) >= 2) =>
    /\ metrics.deployment_frequency.den # 0
    /\ Equals(metrics.deployment_frequency, Len(deployments), SpanDays)

\* three records, one without a valid timestamp, two and a half days: 3/2
C11_Witness ==
  /\ Returned /\ Len(deployments) = 3 /\ Cardinality(ValidTimestamps) = 2
  /\ Latest - Earliest = 60
  /\ metrics.deployment_frequency = [exc |-> "none", num |-> 3, den |-> 2]

(***************************************************************************)
(* C12.  Deployment frequency is monotonic in the record count for a fixed  *)
(* span: a list with the same earliest and latest valid timestamps, at      *)
(* least 2 of them valid, and at least as many records never has a lower    *)
(* deployment frequency.                                                    *)
(***************************************************************************)
\* lists over the earliest and latest instant of the list held: the two
\* instants, then up to MaxDeployments - 1 further records, each at the
\* earliest instant or without a valid timestamp
SameSpanLists ==
  LET With(x) == Deployment(x, Absent, Absent, Str("success"))
      Further == SeqsUpTo({With(IsoStr("Z", Earliest)), With(Str("garbage"))},
                          MaxDeployments - 1)
  IN {<<With(IsoStr("Z", Latest)), With(IsoStr("Z", Earliest))>> \o more : more \in Further}

\* m is not lower than the number n
NotLower(m, n) == m.exc = "none" /\ n.exc = "none" /\ m.num * n.den >= n.num * m.den

C12_FrequencyMonotonic ==
  (Returned /\ Cardinality(ValidTimestamps) >= 2) =>
    \A d \in SameSpanLists :
      /\ Len(d) >= Len(deployments) =>
           NotLower(CalculateDeploymentFrequency(d), metrics.deployment_frequency)
      /\ Len(d) <= Len(deployments) =>
           NotLower(metrics.deployment_frequency, CalculateDeploymentFrequency(d))

\* two records against three over the same two days: 1 against 3/2
C12_Witness ==
  /\ Returned /\ Len(deployments) = 2 /\ Cardinality(ValidTimestamps) = 2
  /\ Latest - Earliest = 48
  /\ Equals(metrics.deployment_frequency, 1, 1)
  /\ \E d \in SameSpanLists :
       Len(d) = 3 /\ CalculateDeploymentFrequency(d) = [exc |-> "none", num |-> 3, den |-> 2]

(***************************************************************************)
(* C13.  Lead time for changes is the arithmetic mean of end_time minus     *)
(* start_time, in hours, over exactly the deployments whose start_time and  *)
(* end_time both resolve to timestamps with end_time >= start_time; a       *)
(* deployment whose end precedes its start never enters the mean; when no   *)
(* deployment qualifies the result is 24.0.                                 *)
(***************************************************************************)
RECURSIVE SumOver(_, _)
SumOver(S, hours) ==
  IF S = {} THEN 0
  ELSE LET x == CHOOSE x \in S : TRUE IN hours[x] + SumOver(S \ {x}, hours)

LeadQualifying ==
  {i \in DOMAIN deployments :
     /\ ValidTs(deployments[i].start_time) /\ ValidTs(deployments[i].end_time)
     /\ deployments[i].end_time.t >= deployments[i].start_time.t}

LeadHours == [i \in DOMAIN deployments |-> deployments[i].end_time.t - deployments[i].start_time.t]

C13_LeadTimeMean ==
  Returned =>
    /\ LeadQualifying # {} =>
         Equals(metrics.lead_time_for_changes,
                SumOver(LeadQualifying, LeadHours), Cardinality(LeadQualifying))
    /\ LeadQualifying = {} => Equals(metrics.lead_time_for_changes, 24, 1)

\* one deployment of 36 hours beside one whose end precedes its start: 36.0
C13_Witness ==
  /\ Returned /\ Len(deployments) = 2
  /\ Cardinality(LeadQualifying) = 1
  /\ \E i \in DOMAIN deployments :
       /\ ValidTs(deployments[i].start_time) /\ ValidTs(deployments[i].end_time)
       /\ deployments[i].end_time.t < deployments[i].start_time.t
  /\ Equals(metrics.lead_time_for_changes, 36, 1)

(***************************************************************************)
(* C14.  Time to restore service is the arithmetic mean of end minus start, *)
(* in hours, over exactly the incidents where start is start_time if        *)
(* present, otherwise timestamp, end is end_time if present, otherwise      *)
(* resolved_time, both resolve to timestamps and end >= start; negative     *)
(* durations never enter the mean; when no incident qualifies the result is *)
(* 4.0.  (Present: the key holds a value that is neither null nor empty.)   *)
(***************************************************************************)
IncidentStart(j) ==
  IF Falsy(incidents[j].start_time) THEN incidents[j].timestamp ELSE incidents[j].start_time

IncidentEnd(j) ==
  IF Falsy(incidents[j].end_time) THEN incidents[j].resolved_time ELSE incidents[j].end_time

RecoveryQualifying ==
  {j \in DOMAIN incidents :
     /\ ValidTs(IncidentStart(j)) /\ ValidTs(IncidentEnd(j))
     /\ IncidentEnd(j).t >= IncidentStart(j).t}

RecoveryHours == [j \in DOMAIN incidents |-> IncidentEnd(j).t - IncidentStart(j).t]

C14_RecoveryTimeMean ==
  Returned =>
    /\ RecoveryQualifying # {} =>
         Equals(metrics.time_to_restore_service,
                SumOver(RecoveryQualifying, RecoveryHours), Cardinality(RecoveryQualifying))
    /\ RecoveryQualifying = {} => Equals(metrics.time_to_restore_service, 4, 1)

\* 24 hours from a start_time that differs from the timestamp, 36 hours from
\* the timestamp of an incident without start_time: 30.0
C14_Witness ==
  /\ Returned /\ Cardinality(RecoveryQualifying) = 2
  /\ \E j \in DOMAIN incidents :
       /\ ~Falsy(incidents[j].start_time) /\ ValidTs(incidents[j].timestamp)
       /\ incidents[j].timestamp.t # incidents[j].start_time.t
  /\ \E j \in DOMAIN incidents : incidents[j].start_time = Absent
  /\ Equals(metrics.time_to_restore_service, 30, 1)

\* a null start_time and a null end_time fall back to timestamp and
\* resolved_time: 12.0
C14_FallbackWitness ==
  /\ Returned /\ Len(incidents) = 1
  /\ incidents[1].start_time = None /\ incidents[1].end_time = None
  /\ Equals(metrics.time_to_restore_service, 12, 1)

(***************************************************************************)
(* C15.  get_performance_classification assigns each metric the tier of     *)
(* the threshold table, Elite checked first, then High, then Medium, else   *)
(* Low: deployment frequency >= 1 Elite, >= 0.14 High, >= 0.033 Medium      *)
(* (exactly 1.0 is Elite, exactly 0.14 High, exactly 0.033 Medium, 0.032    *)
(* Low); lead time <= 24 Elite, <= 168 High, <= 720 Medium; change failure  *)
(* rate <= 15 Elite, <= 30 High, <= 45 Medium; time to restore <= 1 Elite,  *)
(* <= 24 High, <= 168 Medium.                                               *)
(***************************************************************************)
Classified == pc = "classified"

\* the band of a metric where more is better: lower limits in thousandths
BandAtLeast(value, elite, high, medium) ==
  CASE value.num * 1000 >= elite * value.den -> "Elite"
    [] value.num * 1000 < elite * value.den /\ value.num * 1000 >= high * value.den -> "High"
    [] value.num * 1000 < high * value.den /\ value.num * 1000 >= medium * value.den -> "Medium"
    [] value.num * 1000 < medium * value.den -> "Low"

\* the band of a metric where less is better: upper limits
BandAtMost(value, elite, high, medium) ==
  CASE value.num <= elite * value.den -> "Elite"
    [] value.num > elite * value.den /\ value.num <= high * value.den -> "High"
    [] value.num > high * value.den /\ value.num <= medium * value.den -> "Medium"
    [] value.num > medium * value.den -> "Low"

C15_ThresholdTable ==
  Classified =>
    /\ "deployment_frequency" \in DOMAIN metrics =>
         /\ classifications["deployment_frequency"]
              = BandAtLeast(metrics["deployment_frequency"], 1000, 140, 33)
         /\ metrics["deployment_frequency"] = Rat(1, 1)
              => classifications["deployment_frequency"] = "Elite"
         /\ metrics["deployment_frequency"] = Rat(14, 100)
              => classifications["deployment_frequency"] = "High"
         /\ metrics["deployment_frequency"] = Rat(33, 1000)
              => classifications["deployment_frequency"] = "Medium"
         /\ metrics["deployment_frequency"] = Rat(32, 1000)
              => classifications["deployment_frequency"] = "Low"
    /\ "lead_time_for_changes" \in DOMAIN metrics =>
         classifications["lead_time_for_changes"]
           = BandAtMost(metrics["lead_time_for_changes"], 24, 168, 720)
    /\ "change_failure_rate" \in DOMAIN metrics =>
         classifications["change_failure_rate"]
           = BandAtMost(metrics["change_failure_rate"], 15, 30, 45)
    /\ "time_to_restore_service" \in DOMAIN metrics =>
         classifications["time_to_restore_service"]
           = BandAtMost(metrics["time_to_restore_service"], 1, 24, 168)

\* every metric exactly on its Medium limit: 0.033, 720, 45 and 168
C15_Witness ==
  /\ Classified
  /\ MetricKeys \subseteq DOMAIN metrics
  /\ metrics["deployment_frequency"] = Rat(33, 1000)
  /\ metrics["lead_time_for_changes"] = Rat(720, 1)
  /\ metrics["change_failure_rate"] = Rat(45, 1)
  /\ metrics["time_to_restore_service"] = Rat(168, 1)
  /\ \A k \in MetricKeys : classifications[k] = "Medium"

(***************************************************************************)
(* C16.  For every metrics mapping, one lacking metric keys or carrying     *)
(* other keys included, the classification has exactly the four keys        *)
(* deployment_frequency, lead_time_for_changes, change_failure_rate and     *)
(* time_to_restore_service, each valued Elite, High, Medium or Low.         *)
(***************************************************************************)
Tiers == {"Elite", "High", "Medium", "Low"}

C16_FourKeysFourTiers ==
  Classified =>
    /\ DOMAIN classifications = {"deployment_frequency", "lead_time_for_changes",
                                 "change_failure_rate", "time_to_restore_service"}
    /\ \A k \in DOMAIN classifications : classifications[k] \in Tiers

\* a mapping with no metric key and one other key: Low, Elite, Elite, Elite
C16_Witness ==
  /\ Classified
  /\ DOMAIN metrics = {"exc", "measurement_period"}
  /\ classifications["deployment_frequency"] = "Low"
  /\ classifications["lead_time_for_changes"] = "Elite"
  /\ classifications["change_failure_rate"] = "Elite"
  /\ classifications["time_to_restore_service"] = "Elite"

(***************************************************************************)
(* C17.  End to end: for two deployments with timestamps T and T + 2 days,  *)
(* exactly one of them with status "failed", and no incidents, deployment   *)
(* frequency is 2/2 = 1.0, classified Elite, and change failure rate is     *)
(* 50.0, classified Low.                                                    *)
(***************************************************************************)
TwoDaysApartOneFailed ==
  /\ Len(deployments) = 2 /\ incidents = <<>>
  /\ ValidTs(deployments[1].timestamp) /\ ValidTs(deployments[2].timestamp)
  /\ Aware(deployments[1].timestamp) <=> Aware(deployments[2].timestamp)
  /\ deployments[2].timestamp.t - deployments[1].timestamp.t \in {48, -48}
  /\ Cardinality(StatusFailed) = 1
  /\ \E i \in StatusFailed : deployments[i].status = Str("failed")
  /\ \A i \in DOMAIN deployments : deployments[i].status.kind = "str"

C17_TwoDeploymentsOneFailed ==
  TwoDaysApartOneFailed =>
    /\ pc \in {"done", "classified"} =>
         /\ metrics.deployment_frequency = Rat(1, 1)
         /\ metrics.change_failure_rate = Rat(50, 1)
    /\ pc = "classified" =>
         /\ classifications["deployment_frequency"] = "Elite"
         /\ classifications["change_failure_rate"] = "Low"

C17_Witness ==
  /\ TwoDaysApartOneFailed /\ Classified
  /\ deployments[1].timestamp = IsoStr("Z", 0)
  /\ deployments[2].timestamp = IsoStr("Z", 48)
  /\ deployments[2].status = Str("failed")
  /\ Equals(metrics.deployment_frequency, 2, 2)
  /\ classifications["deployment_frequency"] = "Elite"
  /\ classifications["change_failure_rate"] = "Low"

(***************************************************************************)
(* C18.  End to end: for a single deployment with timestamp T and status    *)
(* "success", without start_time and end_time, and no incidents, the result *)
(* is deployment_frequency 1, lead_time_for_changes 24.0,                   *)
(* change_failure_rate 0.0 and time_to_restore_service 4.0.                 *)
(***************************************************************************)
SingleSuccess ==
  /\ Len(deployments) = 1 /\ incidents = <<>>
  /\ ValidTs(deployments[1].timestamp)
  /\ deployments[1].status = Str("success")
  /\ deployments[1].start_time = Absent /\ deployments[1].end_time = Absent

C18_SingleDeployment ==
  (SingleSuccess /\ pc \in {"done", "classified"}) =>
    /\ metrics.deployment_frequency = Rat(1, 1)
    /\ metrics.lead_time_for_changes = Rat(24, 1)
    /\ metrics.change_failure_rate = Rat(0, 1)
    /\ metrics.time_to_restore_service = Rat(4, 1)

C18_Witness ==
  /\ SingleSuccess /\ pc = "done"
  /\ Equals(metrics.deployment_frequency, 1, 1)
  /\ Equals(metrics.lead_time_for_changes, 24, 1)
  /\ Equals(metrics.change_failure_rate, 0, 1)
  /\ Equals(metrics.time_to_restore_service, 4, 1)

(***************************************************************************)
(* C19.  An upstream collection failure (a transport or authentication      *)
(* error raised while retrieving events from vCenter) propagates unchanged  *)
(* to the caller of collect_deployments as an exception; it is never        *)
(* converted into an empty event list.                                      *)
(***************************************************************************)
C19_UpstreamFailurePropagates ==
  (cpc = "returned" /\ failure # "none") => collected.exc = failure

(***************************************************************************)
(* C20.  calculate_dora_metrics and get_performance_classification are      *)
(* stateless: a step of a call writes no attribute of the analyzer and      *)
(* leaves every deployment record, incident record and the argument lists   *)
(* as they are, and in any interleaving of two calls on one analyzer a call *)
(* that ends holds the result it gives when run alone on its arguments.     *)
(***************************************************************************)
\* the outcome of call c run alone
Alone(c) == CalculateDoraMetrics(args[c][1], args[c][2])

NoEventsAnswered == \A q \in DOMAIN answers : answers[q] = 0

C21_NoEventsEmptyList ==
  (cpc = "returned" /\ collected.exc = "none" /\ NoEventsAnswered) => collected.count = 0

(***************************************************************************)
(* C22.  When get_events raises during any of the collection steps,         *)
(* collect_deployments re-raises that same exception to its caller and      *)
(* returns no partial list of deployments.                                  *)
(***************************************************************************)
\* the exception the last get_events call left by raising ("none": it returned)
RaisedByGetEvents == IF gpc = "raise" \/ cpc = "returned" THEN pending ELSE "none"

C22_GetEventsExceptionReRaised ==
  /\ (cpc = "returned" /\ RaisedByGetEvents # "none") =>
       collected = [exc |-> RaisedByGetEvents, count |-> 0]
  /\ (cpc = "returned" /\ collected.exc = "none") => Len(answers) = 2

\* the second query raises after the first one and the sample records were
\* gathered: the caller gets the exception and no list
C22_Witness ==
  /\ cpc = "returned"
  /\ RaisedByGetEvents = "KeyboardInterrupt"
  /\ Len(answers) = 1 /\ answers[1] > 0
  /\ records = answers[1] + SampleDeployments
  /\ collected = [exc |-> "KeyboardInterrupt", count |-> 0]

(***************************************************************************)
(* The daemon command (src/src/cli.py): the main thread installs the signal *)
(* handler, starts the collection thread and polls the running flag; the    *)
(* collection thread runs collect_metrics.  Time is a clock of whole ticks. *)
(* threading.Event.wait(timeout) returns at once when the flag is set and   *)
(* otherwise blocks until the flag is set or the timeout has elapsed.       *)
(***************************************************************************)
\* the clock stops at MaxNow
MaxNow == 6
\* --interval (3600 by default), the retry delay (60 in the source) and the
\* join timeout (10 in the source), in ticks, scaled down in their order
Interval == 3
RetryDelay == 2
JoinTimeout == 1

\* daemon(): running.set(), the handlers are installed, collection_thread.start()
InitDaemon ==
  /\ deployments = <<>> /\ incidents = <<>>
  /\ pc = "daemon"
  /\ metrics = NotCalled
  /\ classifications = NotClassified
  /\ CollectionIdle
  /\ NoCalls
  /\ IdleBut("daemon")
  /\ running = TRUE /\ tpc = "loop" /\ mpc = "poll"
  /\ now = 0 /\ deadline = 0 /\ join_deadline = 0
  /\ started = 0 /\ finished = 0 /\ outcome = "none" /\ cleared = 0

\* time passes
Tick ==
  /\ now < MaxNow
  /\ now' = now + 1
  /\ UNCHANGED <<running, tpc, mpc, deadline, join_deadline, started, finished, outcome, cleared>>
  /\ UNCHANGED beyondDaemon

\* signal_handler(signum, frame), run by the main thread on SIGINT or SIGTERM
signal_handler ==
  /\ mpc \in {"poll", "join"}
  /\ running' = FALSE
  /\ cleared' = IF running THEN now ELSE cleared
  /\ UNCHANGED <<tpc, mpc, now, deadline, join_deadline, started, finished, outcome>>
  /\ UNCHANGED beyondDaemon

\* collect_metrics: `while running.is_set():` entered, a cycle starts
StartCycle ==
  /\ tpc = "loop" /\ running
  /\ tpc' = "cycle"
  /\ started' = now
  /\ UNCHANGED <<running, mpc, now, deadline, join_deadline, finished, outcome, cleared>>
  /\ UNCHANGED beyondDaemon

\* collect_metrics: `while running.is_set():` is false, the thread ends
LeaveLoop ==
  /\ tpc = "loop" /\ ~running
  /\ tpc' = "ended"
  /\ UNCHANGED <<running, mpc, now, deadline, join_deadline, started, finished, outcome, cleared>>
  /\ UNCHANGED beyondDaemon

\* collector.collect_all_metrics(days=1) returned
CycleCompleted ==
  /\ tpc = "cycle"
  /\ tpc' = "wait"
  /\ outcome' = "completed"
  /\ finished' = now
  /\ UNCHANGED <<running, mpc, now, deadline, join_deadline, started, cleared>>
  /\ UNCHANGED beyondDaemon

\* collector.collect_all_metrics(days=1) raised an Exception: logged
CycleFailed ==
  /\ tpc = "cycle"
  /\ tpc' = "wait"
  /\ outcome' = "error"
  /\ finished' = now
  /\ UNCHANGED <<running, mpc, now, deadline, join_deadline, started, cleared>>
  /\ UNCHANGED beyondDaemon

\* the timeout handed to running.wait after the cycle
Timeout(o) == IF o = "error" THEN RetryDelay ELSE Interval

\* running.wait(timeout=...): returns at once when the flag is set, blocks
\* otherwise
Wait ==
  /\ tpc = "wait"
  /\ IF running
       THEN tpc' = "loop" /\ UNCHANGED deadline
       ELSE tpc' = "blocked" /\ deadline' = now + Timeout(outcome)
  /\ UNCHANGED <<running, mpc, now, join_deadline, started, finished, outcome, cleared>>
  /\ UNCHANGED beyondDaemon

\* running.wait(timeout=...): the timeout has elapsed (nothing sets the flag
\* again)
WaitTimedOut ==
  /\ tpc = "blocked" /\ now >= deadline
  /\ tpc' = "loop"
  /\ UNCHANGED <<running, mpc, now, deadline, join_deadline, started, finished, outcome, cleared>>
  /\ UNCHANGED beyondDaemon

\* main thread: `while running.is_set(): time.sleep(1)` is left; finally:
\* running.clear() and collection_thread.join(timeout=10) is called
LeavePolling ==
  /\ mpc = "poll" /\ ~running
  /\ mpc' = "join"
  /\ join_deadline' = now + JoinTimeout
  /\ UNCHANGED <<running, tpc, now, deadline, started, finished, outcome, cleared>>
  /\ UNCHANGED beyondDaemon

\* collection_thread.join(timeout=10) returns: the thread ended or the
\* timeout elapsed; daemon() returns
JoinReturns ==
  /\ mpc = "join"
  /\ tpc = "ended" \/ now >= join_deadline
  /\ mpc' = "returned"
  /\ UNCHANGED <<running, tpc, now, deadline, join_deadline, started, finished, outcome, cleared>>
  /\ UNCHANGED beyondDaemon

\* the interpreter exits after daemon() returned: the collection thread is a
\* daemon thread (collection_thread.daemon = True) and is dropped where it is
ProcessExits ==
  /\ mpc = "returned" /\ tpc \notin {"ended", "dropped"}
  /\ tpc' = "dropped"
  /\ UNCHANGED <<running, mpc, now, deadline, join_deadline, started, finished, outcome, cleared>>
  /\ UNCHANGED beyondDaemon

NextDaemon ==
  \/ Tick \/ signal_handler
  \/ StartCycle \/ LeaveLoop \/ CycleCompleted \/ CycleFailed \/ Wait \/ WaitTimedOut
  \/ LeavePolling \/ JoinReturns \/ ProcessExits

SpecDaemon == InitDaemon /\ [][NextDaemon]_vars

\* the scheduler runs each thread again and again and the clock advances: the
\* main thread wakes from time.sleep(1) and tests the flag, a step of
\* collect_metrics that can be taken is taken.  Nothing is assumed of the
\* signals, of how long a collection cycle takes or of the process's exit.
SpecDaemonFair ==
  /\ SpecDaemon
  /\ WF_vars(Tick)
  /\ WF_vars(LeavePolling) /\ WF_vars(JoinReturns)
  /\ WF_vars(StartCycle) /\ WF_vars(LeaveLoop) /\ WF_vars(Wait) /\ WF_vars(WaitTimedOut)

\* the thread is in a cycle that followed a cycle of outcome o
CycleAfter(o) == tpc = "cycle" /\ outcome = o

(***************************************************************************)
(* C24.  After a collection cycle completed without error, and with no      *)
(* shutdown requested, the collection thread does not start the next cycle  *)
(* before the configured interval has elapsed since.                        *)
(***************************************************************************)
C24_IntervalBetweenCycles ==
  CycleAfter("completed") => started - finished >= Interval

(***************************************************************************)
(* C25.  Once a signal handler has cleared the running flag: the collection *)
(* thread starts no cycle (one in flight was started before), the main      *)
(* thread leaves its polling loop, and the collection thread is never held  *)
(* in its wait for the whole collection interval before its loop ends.      *)
(***************************************************************************)
\* the wait after a completed cycle has lasted the whole interval (deadline is
\* the instant the wait began plus the interval)
BlockedFullInterval ==
  tpc = "blocked" /\ outcome = "completed" /\ now >= deadline

C25_ShutdownStopsPromptly ==
  /\ [](~running /\ tpc = "cycle" => started <= cleared)
  /\ (~running ~> mpc # "poll")
  /\ [](~running => ~BlockedFullInterval)

(***************************************************************************)
(* C26.  An exception raised inside a collection cycle does not end the     *)
(* collection loop: while the running flag is set the thread stays in the   *)
(* loop, and it starts the next cycle only after the retry delay.           *)
(***************************************************************************)
C26_RetryAfterDelay ==
  /\ (outcome = "error" /\ running) => tpc \in {"wait", "loop", "cycle"}
  /\ CycleAfter("error") => started - finished >= RetryDelay

(***************************************************************************)
(* DeploymentCollector.get_deployment_statistics                            *)
(* (src/src/collectors/deployment_collector.py) on a bounded list of        *)
(* deployment records.  A record carries status and duration_minutes; the   *)
(* quotients are exact rationals.                                           *)
(***************************************************************************)
\* longest list handed to get_deployment_statistics
MaxListed == 3

\* an int of value n
Minutes(n) == [kind |-> "int", text |-> "", tz |-> "", t |-> n]

StatusValues == {Str("success"), Str("failed"), Str("SUCCESS"), None, Absent}
DurationValues == {Minutes(15), Minutes(30), None, Absent}

ListedRecord == [status : StatusValues, duration_minutes : DurationValues]

\* d.get('duration_minutes', 0)
DurationOf(d) == IF d.duration_minutes.kind = "absent" THEN Minutes(0) ELSE d.duration_minutes

\* mutant of Successful: the status is compared without regard to case
SuccessfulAnyCase(ds) ==
  Cardinality({i \in DOMAIN ds : ds[i].status \in {Str("success"), Str("SUCCESS")}})

\* len([d for d in deployments if d.get('status') == 'success'])
Successful(ds) == Cardinality({i \in DOMAIN ds : ds[i].status = Str("success")})

RECURSIVE SumMinutes(_)
SumMinutes(ds) ==
  IF ds = <<>> THEN 0 ELSE DurationOf(Head(ds)).t + SumMinutes(Tail(ds))

\* sum(durations): adding None to a number raises TypeError
SumRaises(ds) == \E i \in DOMAIN ds : DurationOf(ds[i]).kind # "int"

\* get_deployment_statistics(deployments)
DeploymentStatistics(ds) ==
  IF ds = <<>>
    THEN [NoStatistics EXCEPT !.exc = "none"]
    ELSE IF SumRaises(ds)
      THEN [NoStatistics EXCEPT !.exc = "TypeError"]
      ELSE [exc |-> "none",
            total_deployments |-> Len(ds),
            successful_deployments |-> Successful(ds),
            failed_deployments |-> Len(ds) - Successful(ds),
            success_rate |-> [num |-> Successful(ds) * 100, den |-> Len(ds)],
            average_duration_minutes |-> [num |-> SumMinutes(ds), den |-> Len(ds)]]

InitStatistics ==
  /\ deployments = <<>> /\ incidents = <<>>
  /\ pc = "statistics"
  /\ metrics = NotCalled
  /\ classifications = NotClassified
  /\ CollectionIdle
  /\ NoCalls
  /\ IdleBut("statistics")
  /\ listed \in SeqsUpTo(ListedRecord, MaxListed)
  /\ statistics = NoStatistics

\* stats = collector.get_deployment_statistics(deployments)
GetDeploymentStatistics ==
  /\ pc = "statistics"
  /\ statistics = NoStatistics
  /\ statistics' = DeploymentStatistics(listed)
  /\ UNCHANGED listed
  /\ UNCHANGED beyondStatistics

NextStatistics == GetDeploymentStatistics

SpecStatistics == InitStatistics /\ [][NextStatistics]_vars

(***************************************************************************)
(* C23.  For every deployment list the dict returned by                     *)
(* get_deployment_statistics has                                            *)
(* total_deployments = the length of the list, successful_deployments = the *)
(* number of records whose status is exactly 'success', failed_deployments  *)
(* = total - successful, both non-negative, and success_rate = successful / *)
(* total * 100 within 0 and 100; for the empty list every field is 0.       *)
(***************************************************************************)
\* the call has returned a dict
StatisticsReturned == pc = "statistics" /\ statistics.exc = "none"

\* the records of status exactly 'success'
ExactlySuccess(ds) == {i \in DOMAIN ds : ds[i].status.kind = "str" /\ ds[i].status.text = "success"}

CollectorHeld == gpc \in {"read", "finally"}

C27_CollectorDestroyedOnce ==
  /\ IF CollectorHeld THEN created = destroyed + 1 ELSE created = destroyed
  /\ events <= MaxEvents
  /\ \A q \in DOMAIN answers : answers[q] <= MaxEvents

\* the first call returned max_events events, the second one met an upstream
\* failure after two collectors were created: both have been destroyed
C27_Witness ==
  /\ cpc = "returned"
  /\ answers = <<MaxEvents, 0>>
  /\ failure # "none"
  /\ created = 2 /\ destroyed = 2

\* an exception that is not caught leaves get_events after a batch was read:
\* the collector has been destroyed
C27_RaisedWitness ==
  /\ gpc = "raise" /\ pending = "KeyboardInterrupt"
  /\ created = 1 /\ destroyed = 1

(***************************************************************************)
(* ConfigManager (src/src/utils/config_manager.py): the configuration held  *)
(* after construction and a sequence of update_config calls.  Of the        *)
(* configuration the 'vmware' and 'collection' sections are modelled, with  *)
(* the keys _validate_config reads.                                         *)
(***************************************************************************)
DefaultPort == 443
MaxPort == 65535
DefaultInterval == 60
DefaultRetention == 90

\* `not value` of a value read from a section
NotSet(v) ==
  \/ v.kind \in {"absent", "none"}
  \/ v.kind = "str" /\ v.text = ""
  \/ v.kind = "int" /\ v.t = 0

\* dict.get(key, default) on a section that is a dict
GetOr(section, key, default) ==
  IF section.fields[key].kind = "absent" THEN Minutes(default) ELSE section.fields[key]

\* not isinstance(v, int) or v < lo or v > hi
OutOfRange(v, lo, hi) == v.kind # "int" \/ v.t < lo \/ v.t > hi

\* not isinstance(v, int) or v < 1
BelowOne(v) == v.kind # "int" \/ v.t < 1

\* config.get(name, {}) of a key that is not there is the empty dict
SectionOf(section) ==
  IF section.kind = "absent" THEN Section("dict", section.fields) ELSE section

\* _validate_config(config): the exception raised, "none" when it returns
ValidateConfig(c) ==
  LET vmware_config == SectionOf(c.vmware)
      collection_config == SectionOf(c.collection)
  IN IF vmware_config.kind # "dict" THEN "AttributeError"
     ELSE IF \E f \in {"vcenter_host", "username", "password"} : NotSet(vmware_config.fields[f])
       THEN "ValueError"
     ELSE IF OutOfRange(GetOr(vmware_config, "port", DefaultPort), 1, MaxPort)
       THEN "ValueError"
     ELSE IF collection_config.kind # "dict" THEN "AttributeError"
     ELSE IF BelowOne(GetOr(collection_config, "interval_minutes", DefaultInterval))
       THEN "ValueError"
     ELSE IF BelowOne(GetOr(collection_config, "retention_days", DefaultRetention))
       THEN "ValueError"
     ELSE "none"

\* _deep_update on one key of the configuration: two dicts are merged key by
\* key, anything else replaces what was there
DeepUpdateSection(base, update) ==
  IF update.kind = "absent" THEN base
  ELSE IF base.kind = "dict" /\ update.kind = "dict"
    THEN Section("dict", [f \in DOMAIN base.fields |->
                            IF update.fields[f].kind = "absent" THEN base.fields[f]
                            ELSE update.fields[f]])
    ELSE update

\* _deep_update(self.config, updates)
DeepUpdate(base, updates) ==
  [vmware |-> DeepUpdateSection(base.vmware, updates.vmware),
   collection |-> DeepUpdateSection(base.collection, updates.collection)]

\* the values a configuration file, the environment or an update gives
RequiredValues == {Absent, Str("set"), Str("")}
PortValues == {Absent, Minutes(DefaultPort), Minutes(0), Minutes(MaxPort + 1), Str("443")}
IntervalValues == {Absent, Minutes(DefaultInterval), Minutes(0)}
RetentionValues == {Absent, Minutes(DefaultRetention), Minutes(-1)}

VmwareSections ==
  {Section("dict", f) : f \in [vcenter_host : RequiredValues, username : {Absent, Str("set")},
                               password : {Absent, Str("set"), None}, port : PortValues]}
    \cup {Section("none", [f \in VmwareFields |-> Absent]), NoSection(VmwareFields)}

CollectionSections ==
  {Section("dict", f) : f \in [interval_minutes : IntervalValues, retention_days : RetentionValues]}
    \cup {Section("none", [f \in CollectionFields |-> Absent]), NoSection(CollectionFields)}

Configs == [vmware : VmwareSections, collection : CollectionSections]

\* ConfigManager.__init__: _load_config fills in the sections that are
\* missing and returns only what _validate_config let through
InitConfig ==
  /\ deployments = <<>> /\ incidents = <<>>
  /\ pc = "config"
  /\ metrics = NotCalled
  /\ classifications = NotClassified
  /\ CollectionIdle
  /\ NoCalls
  /\ IdleBut("config")
  /\ config \in {c \in Configs : /\ c.vmware.kind = "dict" /\ c.collection.kind = "dict"
                                 /\ ValidateConfig(c) = "none"}
  /\ update_exc = "not_called"
  /\ kept = TRUE

\* update_config(updates): the configuration is updated in place, then
\* validated
UpdateConfig ==
  /\ pc = "config"
  /\ \E updates \in Configs :
       /\ config' = DeepUpdate(config, updates)
       /\ update_exc' = ValidateConfig(config')
       /\ kept' = (config' = config)
  /\ UNCHANGED beyondConfig

NextConfig == UpdateConfig

SpecConfig == InitConfig /\ [][NextConfig]_vars

(***************************************************************************)
(* C29.  update_config is atomic with respect to validation: when           *)
(* _validate_config raises ValueError the configuration held is the one     *)
(* held before the call, so after any sequence of update_config calls the   *)
(* configuration held satisfies _validate_config.                           *)
(***************************************************************************)
C29_UpdateAtomic ==
  pc = "config" =>
    /\ update_exc = "ValueError" => kept
    /\ ValidateConfig(config) = "none"

(***************************************************************************)
(* cli._safe_path (src/src/cli.py).  A path is the sequence of its          *)
(* components, absolute or relative to the current working directory; the   *)
(* file system has no symbolic links, so that Path.resolve() only makes the *)
(* path absolute and folds the '..' components.                             *)
(***************************************************************************)
\* most components of a path string given
MaxParts == 3

Components == {"..", "sub", "work"}

UserPaths == [absolute : BOOLEAN, parts : SeqsUpTo(Components, MaxParts)]

WorkingDirectories == {<<"work">>, <<"home", "work">>}

\* '..' of the root directory is the root directory
RECURSIVE Fold(_, _)
Fold(done, rest) ==
  IF rest = <<>> THEN done
  ELSE IF Head(rest) = ".."
    THEN Fold(IF done = <<>> THEN <<>> ELSE SubSeq(done, 1, Len(done) - 1), Tail(rest))
    ELSE Fold(Append(done, Head(rest)), Tail(rest))

\* Path(p).resolve() of a path seen from directory c
Resolve(p, c) == Fold(<<>>, IF p.absolute THEN p.parts ELSE c \o p.parts)

\* resolved.relative_to(c) does not raise ValueError
RelativeTo(resolved, c) ==
  Len(resolved) >= Len(c) /\ SubSeq(resolved, 1, Len(c)) = c

\* os.path.basename(user_path): what follows the last separator
Basename(p) == IF p.parts = <<>> THEN "" ELSE p.parts[Len(p.parts)]

\* cwd / safe_name: the name is appended as it is, '' adds nothing
Joined(c, name) == IF name = "" THEN c ELSE Append(c, name)

\* _safe_path(user_path): the components of the absolute path returned
SafePath(p, c) ==
  IF RelativeTo(Resolve(p, c), c) THEN Resolve(p, c) ELSE Joined(c, Basename(p))

InitPath ==
  /\ deployments = <<>> /\ incidents = <<>>
  /\ pc = "safe_path"
  /\ metrics = NotCalled
  /\ classifications = NotClassified
  /\ CollectionIdle
  /\ NoCalls
  /\ IdleBut("path")
  /\ user_path \in UserPaths
  /\ cwd \in WorkingDirectories
  /\ resolved_path = NotResolved

\* output_path = _safe_path(output)
CallSafePath ==
  /\ pc = "safe_path"
  /\ resolved_path = NotResolved
  /\ resolved_path' = [exc |-> "none", parts |-> SafePath(user_path, cwd)]
  /\ UNCHANGED <<user_path, cwd>>
  /\ UNCHANGED beyondPath

NextPath == CallSafePath

SpecPath == InitPath /\ [][NextPath]_vars

(***************************************************************************)
(* C28.  For every path string given, the path _safe_path returns lies      *)
(* inside the current working directory (the directory itself or a          *)
(* descendant), inputs whose final component is '..' included.              *)
(***************************************************************************)
\* where the file system finds the path returned
LocationReturned == Fold(<<>>, resolved_path.parts)

C28_SafePathInsideCwd ==
  (pc = "safe_path" /\ resolved_path.exc = "none") => RelativeTo(LocationReturned, cwd)

(***************************************************************************)
(* DORACollector.collect_all_metrics (src/src/dora_evidence.py): the two    *)
(* collectors build their records from the events the client returns and    *)
(* from their sample data, and the analyzer computes the metrics.  An event *)
(* is its createdTime (and its type where the collector reads it); a        *)
(* createdTime is a datetime, offset-naive or offset-aware as the client    *)
(* delivers it.  start_date, datetime.now() minus the days asked for, is    *)
(* instant 0 and offset-naive.                                              *)
(***************************************************************************)
\* most events one get_events call returns
MaxQueryEvents == 1

SampleIncidents == 2

StartDate == DateTime("", 0)

EventTimes == {TickHours, LastTime}

CreatedTimes == {DateTime(zone, h) : zone \in {"", "+00:00"}, h \in EventTimes}

\* what get_events returns to a query whose events are read for createdTime
QueryResults == SeqsUpTo(CreatedTimes, MaxQueryEvents)

\* what get_events returns to the query for network events
NetworkResults ==
  SeqsUpTo([eventTypeId : {"DvsPortLinkDownEvent", "DvsPortLinkUpEvent"},
            createdTime : CreatedTimes], MaxQueryEvents)

\* the record _collect_vm_deployments and _collect_infrastructure_changes
\* build of an event, and the sample record of
\* _collect_application_deployments, as far as the analyzer reads them
DeploymentOf(ts) == Deployment(ts, Absent, Absent, Str("success"))

\* the record the incident collectors build, as far as the analyzer reads it
IncidentOf(ts) == Incident(ts, Absent, Absent, Absent)

\* collect_deployments: VM deployments, sample deployments, infrastructure
\* changes
CollectDeployments(vm_events, config_events) ==
  [i \in DOMAIN vm_events |-> DeploymentOf(vm_events[i])]
    \o [i \in 1..SampleDeployments |-> DeploymentOf(StartDate)]
    \o [i \in DOMAIN config_events |-> DeploymentOf(config_events[i])]

\* _find_network_resolution: the comparison of the createdTime of a LinkUp
\* event with the incident time raises TypeError when one is offset-aware
\* and the other is not; the search ends at the first later LinkUp event
RECURSIVE ResolutionRaises(_, _)
ResolutionRaises(incident_time, all_events) ==
  IF all_events = <<>> THEN FALSE
  ELSE LET event == Head(all_events)
       IN IF event.eventTypeId # "DvsPortLinkUpEvent"
            THEN ResolutionRaises(incident_time, Tail(all_events))
          ELSE IF event.createdTime.tz # incident_time.tz THEN TRUE
          ELSE IF event.createdTime.t > incident_time.t THEN FALSE
          ELSE ResolutionRaises(incident_time, Tail(all_events))

IsLinkDown(event) == event.eventTypeId = "DvsPortLinkDownEvent"

\* collect_incidents raises what _collect_network_incidents raises
CollectIncidentsRaises(network_events) ==
  \E i \in DOMAIN network_events :
    /\ IsLinkDown(network_events[i])
    /\ ResolutionRaises(network_events[i].createdTime, network_events)

\* collect_incidents: VM incidents, host incidents, sample application
\* incidents, network incidents (one for each LinkDown event)
CollectIncidents(failure_events, host_events, network_events) ==
  LET downs == SelectSeq(network_events, IsLinkDown)
  IN [i \in DOMAIN failure_events |-> IncidentOf(failure_events[i])]
       \o [i \in DOMAIN host_events |-> IncidentOf(host_events[i])]
       \o [i \in 1..SampleIncidents |-> IncidentOf(DateTime("", (i - 1) * HoursPerDay))]
       \o [i \in DOMAIN downs |-> IncidentOf(downs[i].createdTime)]

InitPipeline ==
  /\ deployments = <<>> /\ incidents = <<>>
  /\ pc = "collect_deployment_data"
  /\ metrics = NotCalled
  /\ classifications = NotClassified
  /\ CollectionIdle
  /\ NoCalls
  /\ OthersIdle

\* deployments = self.collect_deployment_data(days)
CollectDeploymentData ==
  /\ pc = "collect_deployment_data"
  /\ \E vm_events \in QueryResults, config_events \in QueryResults :
       deployments' = CollectDeployments(vm_events, config_events)
  /\ pc' = "collect_incident_data"
  /\ UNCHANGED <<incidents, metrics, classifications>>
  /\ UNCHANGED collectVars
  /\ UNCHANGED callVars
  /\ UNCHANGED otherVars

\* incidents = self.collect_incident_data(days); an exception leaves
\* collect_all_metrics
CollectIncidentData ==
  /\ pc = "collect_incident_data"
  /\ \E failure_events \in QueryResults, host_events \in QueryResults,
        network_events \in NetworkResults :
       IF CollectIncidentsRaises(network_events)
       THEN /\ metrics' = Raised("TypeError")
            /\ pc' = "done"
            /\ UNCHANGED incidents
       ELSE /\ incidents' = CollectIncidents(failure_events, host_events, network_events)
            /\ pc' = "start"
            /\ UNCHANGED metrics
  /\ UNCHANGED <<deployments, classifications>>
  /\ UNCHANGED collectVars
  /\ UNCHANGED callVars
  /\ UNCHANGED otherVars

\* metrics = self.calculate_metrics(deployments, incidents) is Calculate
NextPipeline == CollectDeploymentData \/ CollectIncidentData \/ Calculate

SpecPipeline == InitPipeline /\ [][NextPipeline]_vars

(***************************************************************************)
(* C30.  On the records the two collectors produce, which carry a timestamp *)
(* but no start_time, end_time or resolved_time, collect_all_metrics        *)
(* reports lead_time_for_changes = 24.0 and time_to_restore_service = 4.0,  *)
(* whatever events the client has returned.                                 *)
(***************************************************************************)
C30_DefaultsWhateverEvents ==
  (pc = "done" /\ Len(deployments) >= SampleDeployments) =>
    /\ metrics.exc = "none"
    /\ Equals(metrics.lead_time_for_changes, DefaultLeadTime, 1)
    /\ Equals(metrics.time_to_restore_service, DefaultRecoveryTime, 1)

====
